---------------------------- MODULE Spec2Model ----------------------------
(***************************************************************************)
(* A model of the valuation engine of Intrinsic-Value-Calculator           *)
(* (src/src/provider.py): dcf, its three reverse solves, calc_cagr and     *)
(* calc_up_downside.                                                       *)
(*                                                                         *)
(* Numbers.  A Python/numpy float is modelled by an exact extended         *)
(* rational <<n, d>> in lowest terms with d >= 0.  d = 0 holds the three   *)
(* non-finite values of IEEE arithmetic: <<1,0>> is +inf, <<-1,0>> is -inf *)
(* and <<0,0>> is nan.  All arrays that reach the arithmetic of dcf are    *)
(* numpy arrays (np.full, or pandas values), so a division by zero yields  *)
(* inf or nan instead of raising ZeroDivisionError.                        *)
(***************************************************************************)
EXTENDS Integers, Sequences, FiniteSets, TLC

\* ------------------------------------------------------------------------
\* Bounds of the model.
\* ------------------------------------------------------------------------
\* Largest forecast horizon n_future_years drawn for a call.
MaxYears == 2
\* Deepest nesting of dcf calls the model follows.
MaxDepth == 3

\* ------------------------------------------------------------------------
\* Extended rational arithmetic (the float operations dcf uses).
\* ------------------------------------------------------------------------
AbsInt(i) == IF i < 0 THEN -i ELSE i

Sgn(i) == IF i > 0 THEN 1 ELSE IF i < 0 THEN -1 ELSE 0

RECURSIVE GCD(_, _)
GCD(a, b) == IF b = 0 THEN a ELSE GCD(b, a % b)

\* The value n/d in lowest terms; d = 0 gives inf, -inf or nan.
Norm(n, d) ==
  IF d = 0 THEN <<Sgn(n), 0>>
  ELSE LET g == GCD(AbsInt(n), AbsInt(d))
       IN  <<Sgn(d) * (n \div g), AbsInt(d) \div g>>

Zero == <<0, 1>>
One  == <<1, 1>>
NaN  == <<0, 0>>
PosInf == <<1, 0>>
NegInf == <<-1, 0>>

IsFinite(a) == a[2] # 0
IsNaN(a) == a = NaN

Mul(a, b) == Norm(a[1] * b[1], a[2] * b[2])

Add(a, b) ==
  IF a[2] = 0 /\ b[2] = 0
  THEN (IF a = b THEN a ELSE NaN)
  ELSE Norm(a[1] * b[2] + b[1] * a[2], a[2] * b[2])

Neg(a) == <<-a[1], a[2]>>

Sub(a, b) == Add(a, Neg(b))

\* numpy division: x/0 is inf with the sign of x, 0/0 is nan, x/inf is 0.
Div(a, b) ==
  IF a[2] = 0 /\ b[2] = 0 THEN NaN
  ELSE Norm(a[1] * b[2], a[2] * b[1])

AbsR(a) == <<AbsInt(a[1]), a[2]>>

\* a < b as IEEE compares: every comparison with nan is false.
Less(a, b) ==
  IF IsNaN(a) \/ IsNaN(b) THEN FALSE
  ELSE IF a[2] = 0 /\ b[2] = 0 THEN a[1] < b[1]
  ELSE a[1] * b[2] < b[1] * a[2]

LessEq(a, b) == Less(a, b) \/ (a = b /\ ~IsNaN(a))

RECURSIVE Pow(_, _)
Pow(a, k) == IF k <= 0 THEN One ELSE Mul(a, Pow(a, k - 1))

\* Python's round(x, 2): to the nearest hundredth, ties to the even one;
\* inf and nan are returned as they are.
Round2(a) ==
  IF a[2] = 0 THEN a
  ELSE LET p == 100 * a[1]
           fl == p \div a[2]
           rem == p % a[2]
           k == IF 2 * rem < a[2] THEN fl
                ELSE IF 2 * rem > a[2] THEN fl + 1
                ELSE IF fl % 2 = 0 THEN fl ELSE fl + 1
       IN  Norm(k, 100)

Pct(a) == Mul(<<100, 1>>, a)

\* ------------------------------------------------------------------------
\* numpy helpers.
\* ------------------------------------------------------------------------
\* An argument that is one number or a sequence of numbers.
Scalar(x) == [shape |-> "scalar", a |-> <<x>>]
Array(s)  == [shape |-> "array", a |-> s]

\* np.array([x]).shape == (1,): true of a scalar only (a list of length L
\* gives shape (1, L)).
IsScalar(x) == x.shape = "scalar"

\* np.full(n, x) for n >= 0.
Full(n, x) == Array([i \in 1..n |-> x])


\* ------------------------------------------------------------------------
\* The arithmetic of dcf, provider.py lines 119-144.
\* ------------------------------------------------------------------------
\* rev_inc after the i-th iteration of the projection loop.
RECURSIVE RevInc(_, _, _)
RevInc(rev_growth_array, latest_revenue, i) ==
  IF i = 0 THEN latest_revenue
  ELSE Mul(RevInc(rev_growth_array, latest_revenue, i - 1),
           Add(One, rev_growth_array.a[i]))

\* proj_fcf: one entry per year of range(0, n_future_years).
ProjFcf(rev_growth_array, fcf_margins_array, n_future_years, latest_revenue) ==
  [i \in 1..n_future_years |->
     Mul(RevInc(rev_growth_array, latest_revenue, i), fcf_margins_array.a[i])]

\* discount_factors[i] = (1+wacc)**(i+1), i from 0.
DiscountFactors(wacc, n_future_years) ==
  [i \in 1..n_future_years |-> Pow(Add(One, wacc), i)]

\* discounted_fcf after the first k entries of proj_fcf were added.
RECURSIVE DiscountedFcf(_, _, _)
DiscountedFcf(proj_fcf, discount_factors, k) ==
  IF k = 0 THEN Zero
  ELSE Add(DiscountedFcf(proj_fcf, discount_factors, k - 1),
           Div(proj_fcf[k], discount_factors[k]))

\* (proj_fcf[-1] * (1+tgr))/(wacc - tgr) on a mutated line: the extra
\* growth period of the last year dropped.
TerminalValueNoGrowth(proj_fcf, discount_factors, wacc, tgr) ==
  Div(Div(proj_fcf[Len(proj_fcf)], Sub(wacc, tgr)),
      discount_factors[Len(discount_factors)])

\* terminal_value discounted one year further than the last projected year.
TerminalValueYearLater(proj_fcf, discount_factors, wacc, tgr) ==
  Div(Div(Mul(proj_fcf[Len(proj_fcf)], Add(One, tgr)), Sub(wacc, tgr)),
      Mul(discount_factors[Len(discount_factors)], Add(One, wacc)))

\* terminal_value, lines 137-138 (proj_fcf is not empty).
TerminalValue(proj_fcf, discount_factors, wacc, tgr) ==
  Div(Div(Mul(proj_fcf[Len(proj_fcf)], Add(One, tgr)), Sub(wacc, tgr)),
      discount_factors[Len(discount_factors)])

\* fair_value with the terminal value built on the revenue of the last
\* year instead of its free cash flow.
FairValueTerminalOnRevenue(f) ==
  LET proj_fcf == ProjFcf(f.rev_growth_array, f.fcf_margins_array,
                          f.n_future_years, f.latest_revenue)
      discount_factors == DiscountFactors(f.wacc, f.n_future_years)
      discounted_fcf == DiscountedFcf(proj_fcf, discount_factors, Len(proj_fcf))
      last_revenue == <<RevInc(f.rev_growth_array, f.latest_revenue,
                               f.n_future_years)>>
      terminal_value == TerminalValue(last_revenue, discount_factors,
                                      f.wacc, f.tgr)
      todays_value == Add(discounted_fcf, terminal_value)
  IN  Div(todays_value, f.total_shares)

\* fair_value, lines 119-144, for arguments that raise nothing.
FairValue(f) ==
  LET proj_fcf == ProjFcf(f.rev_growth_array, f.fcf_margins_array,
                          f.n_future_years, f.latest_revenue)
      discount_factors == DiscountFactors(f.wacc, f.n_future_years)
      discounted_fcf == DiscountedFcf(proj_fcf, discount_factors, Len(proj_fcf))
      terminal_value == TerminalValue(proj_fcf, discount_factors, f.wacc, f.tgr)
      todays_value == Add(discounted_fcf, terminal_value)
  IN  Div(todays_value, f.total_shares)

\* The exception lines 119-144 raise, or "none".  Indexing an array past
\* its end raises IndexError (line 123 for growth, 124 for margins); with
\* no projected year proj_fcf[-1] raises IndexError on line 137.
ForwardError(f) ==
  IF \E i \in 1..f.n_future_years :
        i > Len(f.rev_growth_array.a) /\ i <= Len(f.fcf_margins_array.a) + 1
    THEN [exc |-> "IndexError", line |-> 123]
  ELSE IF \E i \in 1..f.n_future_years : i > Len(f.fcf_margins_array.a)
    THEN [exc |-> "IndexError", line |-> 124]
  ELSE IF f.n_future_years <= 0
    THEN [exc |-> "IndexError", line |-> 137]
  ELSE [exc |-> "none", line |-> 0]

\* ------------------------------------------------------------------------
\* calc_cagr, provider.py lines 250-256.
\* ------------------------------------------------------------------------
RECURSIVE IPow(_, _)
IPow(b, k) == IF k <= 0 THEN 1 ELSE b * IPow(b, k - 1)

\* The N-th root is computed exactly: the model draws growth paths whose
\* compounded multiplier is an N-th power of a rational.
HasIRoot(p, N) == \E r \in 0..p : IPow(r, N) = p
IRoot(p, N) == CHOOSE r \in 0..p : IPow(r, N) = p

HasRoot(a, N) == a[2] = 0 \/ (HasIRoot(AbsInt(a[1]), N) /\ HasIRoot(a[2], N))

\* np.abs(a)**(1/N), N >= 1.
Root(a, N) ==
  IF a[2] = 0 THEN AbsR(a)
  ELSE <<IRoot(AbsInt(a[1]), N), IRoot(a[2], N)>>

\* final_val after the loop over the whole array.
RECURSIVE FinalVal(_, _)
FinalVal(s, k) ==
  IF k = 0 THEN One ELSE Mul(FinalVal(s, k - 1), Add(One, s[k]))

\* calc_cagr with np.sign left out of line 256.
CalcCagrUnsigned(rev_growth_array, N) ==
  IF IsScalar(rev_growth_array)
  THEN Round2(Pct(rev_growth_array.a[1]))
  ELSE LET final_val == FinalVal(rev_growth_array.a, Len(rev_growth_array.a))
       IN  Round2(Mul(<<100, 1>>, Sub(Root(final_val, N), One)))

\* calc_cagr with the exponent 1/N left out of line 256.
CalcCagrNoRoot(rev_growth_array, N) ==
  IF IsScalar(rev_growth_array)
  THEN Round2(Pct(rev_growth_array.a[1]))
  ELSE LET final_val == FinalVal(rev_growth_array.a, Len(rev_growth_array.a))
       IN  Round2(Mul(<<Sgn(final_val[1]) * 100, 1>>,
                      Sub(AbsR(final_val), One)))

CalcCagr(rev_growth_array, N) ==
  IF IsScalar(rev_growth_array)
  THEN Round2(Pct(rev_growth_array.a[1]))
  ELSE LET final_val == FinalVal(rev_growth_array.a, Len(rev_growth_array.a))
       IN  Round2(Mul(<<Sgn(final_val[1]) * 100, 1>>,
                      Sub(Root(final_val, N), One)))

\* ------------------------------------------------------------------------
\* The inputs the model draws.
\* ------------------------------------------------------------------------
Half == <<1, 2>>
Quarter == <<1, 4>>

\* Scalar growth rates / margins a caller passes; -3/2 is a rate below -1
\* (revenue changes sign every year).
GrowthScalars == {Zero, One, Neg(<<3, 2>>)}
MarginScalars == {Zero, Half}

\* Per-year values of a growth path; (1+g) is 1/2 or 2.
GrowthValues == {Neg(Half), One}

\* Growth paths of every length up to one more than the longest horizon.
GrowthPaths ==
  UNION {[1..L -> GrowthValues] : L \in 1..(MaxYears + 1)}

\* Margin paths: the prefixes of 1/2, 1/4, 1/2, 1/4, ...
MarginPath(L) == [i \in 1..L |-> IF i % 2 = 1 THEN Half ELSE Quarter]
MarginPaths == {MarginPath(L) : L \in 1..(MaxYears + 1)}

GrowthInputs == {Scalar(x) : x \in GrowthScalars} \cup {Array(s) : s \in GrowthPaths}
MarginInputs == {Scalar(x) : x \in MarginScalars} \cup {Array(s) : s \in MarginPaths}

Horizons == (-1)..MaxYears
DiscountRates == {Zero, Quarter, One}
TerminalRates == {Zero, Quarter}
LatestRevenues == {<<8, 1>>}
ShareCounts == {Zero, <<2, 1>>}
\* Python's None: a caller that has no price to give.
None == <<>>
Prices == {Zero, <<4, 1>>, None}

\* The arguments of one call of dcf (the signature, lines 111-112).
Args(g, m, n, rev, w, t, sh, p, mode) ==
  [rev_growth_array |-> g, fcf_margins_array |-> m, n_future_years |-> n,
   latest_revenue |-> rev, wacc |-> w, tgr |-> t, total_shares |-> sh,
   current_price |-> p, reverse_dcf_mode |-> mode]

\* calc_cagr of line 146 can be computed exactly for these arguments (it is
\* reached only when lines 113-144 raised nothing).
CagrExact(a) ==
  \/ a.n_future_years <= 0
  \/ IsScalar(a.rev_growth_array)
  \/ Len(a.rev_growth_array.a) < a.n_future_years
  \/ HasRoot(FinalVal(a.rev_growth_array.a, Len(a.rev_growth_array.a)),
             a.n_future_years)

Calls ==
  {a \in {Args(g, m, n, rev, w, t, sh, p, mode) :
             g \in GrowthInputs, m \in MarginInputs, n \in Horizons,
             rev \in LatestRevenues, w \in DiscountRates, t \in TerminalRates,
             sh \in ShareCounts, p \in Prices, mode \in BOOLEAN} :
     CagrExact(a)}

\* ------------------------------------------------------------------------
\* scipy.optimize.minimize_scalar as dcf uses it (lines 171-184).  The
\* unbounded Brent search starts from the bracket points 0 and 1 and calls
\* the objective at further points; the model lets it call the objective
\* at each point of a fixed list and return the best point seen as .x.
\* The caller passes no bounds, so points at or below tgr are tried too.
\* ------------------------------------------------------------------------
GrowthGrid == <<Zero, One, Neg(Half)>>
DiscountGrid == <<Zero, One, Quarter>>
MarginGrid == <<Zero, One, Half>>

Solves == {"solve_rg", "solve_wacc", "solve_fcf"}

Grid(pc) ==
  IF pc = "solve_rg" THEN GrowthGrid
  ELSE IF pc = "solve_wacc" THEN DiscountGrid
  ELSE MarginGrid

\* The margin solve moved before the discount-rate solve.
NextPcMarginSecond(pc) ==
  IF pc = "solve_rg" THEN "solve_fcf"
  ELSE IF pc = "solve_fcf" THEN "solve_wacc"
  ELSE "return"

\* The order of the three minimize_scalar calls, lines 171, 176, 181.
NextPc(pc) ==
  IF pc = "solve_rg" THEN "solve_wacc"
  ELSE IF pc = "solve_wacc" THEN "solve_fcf"
  ELSE "return"

\* ------------------------------------------------------------------------
\* The nested objective functions, lines 152-169: the arguments of the dcf
\* call each makes for candidate x, from the locals of the calling frame f.
\* ------------------------------------------------------------------------
\* reverse_dcf_revenue with the reverse_dcf_mode=True argument left out.
ReverseDcfRevenueFullMode(f, x) ==
  Args(Full(f.n_future_years, x), f.fcf_margins_array, f.n_future_years,
       f.latest_revenue, f.wacc, f.tgr, f.total_shares, f.current_price, FALSE)

\* reverse_dcf_revenue with wacc and tgr passed in each other's position.
ReverseDcfRevenueSwapped(f, x) ==
  Args(Full(f.n_future_years, x), f.fcf_margins_array, f.n_future_years,
       f.latest_revenue, f.tgr, f.wacc, f.total_shares, f.current_price, TRUE)

ReverseDcfRevenue(f, x) ==
  Args(Full(f.n_future_years, x), f.fcf_margins_array, f.n_future_years,
       f.latest_revenue, f.wacc, f.tgr, f.total_shares, f.current_price, TRUE)

\* reverse_dcf_fcf_margin with the candidate put into the first year of the
\* caller's margin path only.
ReverseDcfFcfMarginFirstYear(f, x) ==
  Args(f.rev_growth_array,
       Array([i \in 1..Len(f.fcf_margins_array.a) |->
                IF i = 1 THEN x ELSE f.fcf_margins_array.a[i]]),
       f.n_future_years,
       f.latest_revenue, f.wacc, f.tgr, f.total_shares, f.current_price, TRUE)

ReverseDcfFcfMargin(f, x) ==
  Args(f.rev_growth_array, Full(f.n_future_years, x), f.n_future_years,
       f.latest_revenue, f.wacc, f.tgr, f.total_shares, f.current_price, TRUE)

\* reverse_dcf_discount_rate evaluated at the growth rate the first solve
\* has just produced instead of the caller's growth path.
ReverseDcfDiscountRateChained(f, x) ==
  Args(Full(f.n_future_years, Div(f.required_rev_growth, <<100, 1>>)),
       f.fcf_margins_array, f.n_future_years,
       f.latest_revenue, x, f.tgr, f.total_shares, f.current_price, TRUE)

ReverseDcfDiscountRate(f, x) ==
  Args(f.rev_growth_array, f.fcf_margins_array, f.n_future_years,
       f.latest_revenue, x, f.tgr, f.total_shares, f.current_price, TRUE)

ObjectiveArgs(f, x) ==
  IF f.pc = "solve_rg" THEN ReverseDcfRevenue(f, x)
  ELSE IF f.pc = "solve_wacc" THEN ReverseDcfDiscountRate(f, x)
  ELSE ReverseDcfFcfMargin(f, x)

\* ------------------------------------------------------------------------
\* State.
\* ------------------------------------------------------------------------
VARIABLES
  call,     \* the arguments of the outermost dcf call, as the caller gave them
  stack,    \* the active dcf calls, outermost first: arguments, locals, position
  opt,      \* per finished solve, the OptimizeResult minimize_scalar returned
  outcome   \* what the outermost call gave its caller

\* The programs around dcf.  A behaviour runs one of them; the others stay
\* Unset.
VARIABLES
  helper,   \* a direct call of calc_cagr or calc_up_downside and its result
  cli,      \* a run of get_fair_value.py: argv, position, what it passes on
  gui,      \* the window of GUI.py / GUI_WIP.py: its entry and output fields
  par,      \* invocations run side by side by one caller, and its arrays
  batch     \* a run of batch_mode.py: the rows read, the rows gathered, the file

vars == <<call, stack, opt, outcome, helper, cli, gui, par, batch>>

Unset == <<>>

\* What a step of dcf leaves alone.
around == <<helper, cli, gui, par, batch>>

\* A frame of dcf on entry.
NewFrame(a) ==
  [rev_growth_array |-> a.rev_growth_array,
   fcf_margins_array |-> a.fcf_margins_array,
   n_future_years |-> a.n_future_years,
   latest_revenue |-> a.latest_revenue,
   wacc |-> a.wacc, tgr |-> a.tgr,
   total_shares |-> a.total_shares,
   current_price |-> a.current_price,
   reverse_dcf_mode |-> a.reverse_dcf_mode,
   pc |-> "broadcast",
   fair_value |-> Unset, assumed_cagr |-> Unset,
   required_rev_growth |-> Unset, required_discount_rate |-> Unset,
   required_fcf_margin |-> Unset,
   \* the running minimize_scalar call: points tried, best point and value
   idx |-> 0, best_x |-> Unset, best_f |-> Unset]

NoOutcome ==
  [kind |-> "none", fair_value |-> Unset, required_rev_growth |-> Unset,
   required_discount_rate |-> Unset, required_fcf_margin |-> Unset,
   assumed_cagr |-> Unset, exc |-> "none", line |-> 0, during |-> "none"]

Top == stack[Len(stack)]

SetTop(f) == [stack EXCEPT ![Len(stack)] = f]

Init ==
  /\ call \in Calls
  /\ stack = <<NewFrame(call)>>
  /\ opt = [s \in Solves |-> Unset]
  /\ outcome = NoOutcome
  /\ helper = Unset /\ cli = Unset /\ gui = Unset /\ par = Unset /\ batch = Unset

\* An exception leaves dcf: nothing in dcf or in minimize_scalar catches it,
\* so every active call is abandoned and the outermost caller sees it.
Raise(exc, line) ==
  /\ outcome' = [NoOutcome EXCEPT !.kind = "raised", !.exc = exc,
                                  !.line = line, !.during = stack[1].pc]
  /\ stack' = <<>>
  /\ UNCHANGED <<call, opt>>

\* Lines 113-117: a scalar is broadcast with np.full, which raises
\* ValueError for a negative length; a sequence is left as it is.
Broadcast ==
  /\ stack # <<>>
  /\ Top.pc = "broadcast"
  /\ LET f == Top
         n == f.n_future_years
     IN  IF n < 0 /\ IsScalar(f.rev_growth_array) THEN Raise("ValueError", 114)
         ELSE IF n < 0 /\ IsScalar(f.fcf_margins_array) THEN Raise("ValueError", 117)
         ELSE /\ stack' = SetTop([f EXCEPT
                    !.rev_growth_array =
                        IF IsScalar(@) THEN Full(n, @.a[1]) ELSE @,
                    !.fcf_margins_array =
                        IF IsScalar(@) THEN Full(n, @.a[1]) ELSE @,
                    !.pc = "forward"])
              /\ UNCHANGED <<call, opt, outcome>>
  /\ UNCHANGED around

\* Lines 119-144 when they raise.
ForwardRaise ==
  /\ stack # <<>>
  /\ Top.pc = "forward"
  /\ ForwardError(Top).exc # "none"
  /\ Raise(ForwardError(Top).exc, ForwardError(Top).line)
  /\ UNCHANGED around

\* The line on which the objective of the running solve subtracts
\* current_price from the fair value.
ObjectiveLine(pc) ==
  IF pc = "solve_rg" THEN 156 ELSE IF pc = "solve_wacc" THEN 169 ELSE 163

\* Lines 119-149 of a call with reverse_dcf_mode=True: the fair value is
\* returned.  The outermost call hands it to its caller; a call made by an
\* objective function hands it to the objective, which returns
\* abs(fair value - current_price) to the running minimize_scalar.
ForwardPriceOnly ==
  /\ stack # <<>>
  /\ Top.pc = "forward"
  /\ ForwardError(Top).exc = "none"
  /\ Top.reverse_dcf_mode
  /\ Len(stack) = 1 \/ Top.current_price # None
  /\ LET fair_value == FairValue(Top)
     IN  IF Len(stack) = 1
         THEN /\ outcome' = [NoOutcome EXCEPT !.kind = "value",
                                              !.fair_value = fair_value]
              /\ stack' = <<>>
         ELSE LET c == stack[Len(stack) - 1]
                  x == Grid(c.pc)[c.idx + 1]
                  fun == AbsR(Sub(fair_value, c.current_price))
                  better == c.idx = 0 \/ Less(fun, c.best_f)
              IN  /\ stack' = [SubSeq(stack, 1, Len(stack) - 1) EXCEPT
                       ![Len(stack) - 1] = [c EXCEPT
                           !.idx = @ + 1,
                           !.best_x = IF better THEN x ELSE @,
                           !.best_f = IF better THEN fun ELSE @]]
                  /\ UNCHANGED outcome
  /\ UNCHANGED <<call, opt>>
  /\ UNCHANGED around

\* The objective receives the fair value and subtracts a current_price of
\* None: TypeError, raised inside minimize_scalar.
ObjectiveRaise ==
  /\ Len(stack) > 1
  /\ Top.pc = "forward"
  /\ ForwardError(Top).exc = "none"
  /\ Top.reverse_dcf_mode
  /\ Top.current_price = None
  /\ Raise("TypeError", ObjectiveLine(stack[Len(stack) - 1].pc))
  /\ UNCHANGED around

\* Lines 119-149 of a call with reverse_dcf_mode=False: fair value and
\* assumed CAGR are kept and the first reverse solve begins.
ForwardFull ==
  /\ stack # <<>>
  /\ Top.pc = "forward"
  /\ ForwardError(Top).exc = "none"
  /\ ~Top.reverse_dcf_mode
  /\ stack' = SetTop([Top EXCEPT
         !.fair_value = FairValue(Top),
         !.assumed_cagr = CalcCagr(Top.rev_growth_array, Top.n_future_years),
         !.pc = "solve_rg"])
  /\ UNCHANGED <<call, opt, outcome>>
  /\ UNCHANGED around

\* minimize_scalar calls the objective at its next point, which calls dcf.
ObjectiveCall ==
  /\ stack # <<>>
  /\ Top.pc \in Solves
  /\ Top.idx < Len(Grid(Top.pc))
  /\ Len(stack) < MaxDepth
  /\ stack' = Append(stack, NewFrame(ObjectiveArgs(Top, Grid(Top.pc)[Top.idx + 1])))
  /\ UNCHANGED <<call, opt, outcome>>
  /\ UNCHANGED around

\* minimize_scalar returns; dcf reads .x only (lines 171-184), rounds it as a
\* percentage and goes on to the next solve.
MinimizeReturn ==
  /\ stack # <<>>
  /\ Top.pc \in Solves
  /\ Top.idx = Len(Grid(Top.pc))
  /\ LET f == Top
         required == Round2(Pct(f.best_x))
     IN  /\ stack' = SetTop([f EXCEPT
                !.required_rev_growth = IF f.pc = "solve_rg" THEN required ELSE @,
                !.required_discount_rate = IF f.pc = "solve_wacc" THEN required ELSE @,
                !.required_fcf_margin = IF f.pc = "solve_fcf" THEN required ELSE @,
                !.pc = NextPc(f.pc),
                !.idx = 0, !.best_x = Unset, !.best_f = Unset])
         /\ IF Len(stack) = 1
            THEN opt' = [opt EXCEPT ![f.pc] = [x |-> f.best_x, fun |-> f.best_f]]
            ELSE UNCHANGED opt
  /\ UNCHANGED <<call, outcome>>
  /\ UNCHANGED around

\* Line 188: the outermost call returns its five results.
Return ==
  /\ Len(stack) = 1
  /\ Top.pc = "return"
  /\ outcome' = [NoOutcome EXCEPT
         !.kind = "tuple",
         !.fair_value = Round2(Top.fair_value),
         !.required_rev_growth = Top.required_rev_growth,
         !.required_discount_rate = Top.required_discount_rate,
         !.required_fcf_margin = Top.required_fcf_margin,
         !.assumed_cagr = Top.assumed_cagr]
  /\ stack' = <<>>
  /\ UNCHANGED <<call, opt>>
  /\ UNCHANGED around

Next ==
  \/ Broadcast
  \/ ForwardRaise
  \/ ForwardPriceOnly
  \/ ForwardFull
  \/ ObjectiveCall
  \/ MinimizeReturn
  \/ ObjectiveRaise
  \/ Return

Spec == Init /\ [][Next]_vars

\* ------------------------------------------------------------------------
\* Notions the properties share.
\* ------------------------------------------------------------------------
Finished == outcome.kind # "none"

\* The growth path / margin path the outermost call works with after lines
\* 113-117 ("the original values").
OriginalGrowth ==
  IF IsScalar(call.rev_growth_array)
  THEN Full(call.n_future_years, call.rev_growth_array.a[1])
  ELSE call.rev_growth_array

OriginalMargins ==
  IF IsScalar(call.fcf_margins_array)
  THEN Full(call.n_future_years, call.fcf_margins_array.a[1])
  ELSE call.fcf_margins_array

\* A supplied sequence has exactly one entry per year.
LengthsAgree ==
  /\ IsScalar(call.rev_growth_array)
        \/ Len(call.rev_growth_array.a) = call.n_future_years
  /\ IsScalar(call.fcf_margins_array)
        \/ Len(call.fcf_margins_array.a) = call.n_future_years

\* Valid assumptions and market facts (spec sections 3 and 7).
ValidCall ==
  /\ call.n_future_years >= 1
  /\ LengthsAgree
  /\ Less(call.tgr, call.wacc)
  /\ Less(Zero, call.total_shares)
  /\ call.current_price # None
  /\ Less(Zero, call.current_price)
  /\ Less(Zero, call.latest_revenue)

\* ------------------------------------------------------------------------
\* C1.  The closed form, computed from the caller's arguments alone.
\* ------------------------------------------------------------------------
GrowthOfYear(k) ==
  IF IsScalar(call.rev_growth_array) THEN call.rev_growth_array.a[1]
  ELSE call.rev_growth_array.a[k]

MarginOfYear(k) ==
  IF IsScalar(call.fcf_margins_array) THEN call.fcf_margins_array.a[1]
  ELSE call.fcf_margins_array.a[k]

RECURSIVE GrowthProduct(_)
GrowthProduct(i) ==
  IF i = 0 THEN One ELSE Mul(Add(One, GrowthOfYear(i)), GrowthProduct(i - 1))

\* F_i = latest_revenue * PROD_{k<=i}(1+g_k) * m_i
CashFlow(i) == Mul(Mul(call.latest_revenue, GrowthProduct(i)), MarginOfYear(i))

RECURSIVE PresentValueSum(_)
PresentValueSum(i) ==
  IF i = 0 THEN Zero
  ELSE Add(Div(CashFlow(i), Pow(Add(One, call.wacc), i)), PresentValueSum(i - 1))

ClosedForm ==
  LET N == call.n_future_years
      r == call.wacc
      t == call.tgr
  IN  Div(Add(PresentValueSum(N),
              Div(Mul(CashFlow(N), Add(One, t)),
                  Mul(Sub(r, t), Pow(Add(One, r), N)))),
          call.total_shares)

\* The two-stage value for one growth rate g and one margin m, with
\* q = (1+g)/(1+r): R*m*(q + ... + q^N + q^N*(1+t)/(r-t)) / shares, the
\* geometric sum in closed form.
TwoStage ==
  LET N == call.n_future_years
      r == call.wacc
      t == call.tgr
      q == Div(Add(One, call.rev_growth_array.a[1]), Add(One, r))
      geo == IF q = One THEN <<N, 1>>
             ELSE Div(Mul(q, Sub(One, Pow(q, N))), Sub(One, q))
      tail == Div(Mul(Pow(q, N), Add(One, t)), Sub(r, t))
  IN  Div(Mul(Mul(call.latest_revenue, call.fcf_margins_array.a[1]),
              Add(geo, tail)),
          call.total_shares)

C1Case ==
  /\ call.reverse_dcf_mode
  /\ call.n_future_years >= 1
  /\ LengthsAgree
  /\ Less(call.tgr, call.wacc)
  /\ Less(Zero, call.total_shares)

\* C1: in price-only mode, for N >= 1, r > tgr and shares > 0, dcf returns
\* (SUM F_i/(1+r)^i + F_N(1+tgr)/((r-tgr)(1+r)^N)) / total_shares, and for
\* one growth rate and one margin the closed-form two-stage value.
C1_ClosedForm ==
  (Finished /\ C1Case) =>
     /\ outcome.kind = "value"
     /\ outcome.fair_value = ClosedForm
     /\ (IsScalar(call.rev_growth_array) /\ IsScalar(call.fcf_margins_array))
           => outcome.fair_value = TwoStage

\* A price-only call over two years with a growth path that changes, a
\* margin path and a terminal growth rate above zero has returned.
C1_Witness ==
  /\ Finished /\ C1Case
  /\ call.n_future_years = 2
  /\ ~IsScalar(call.rev_growth_array)
  /\ call.rev_growth_array.a[1] # call.rev_growth_array.a[2]
  /\ ~IsScalar(call.fcf_margins_array)
  /\ call.tgr # Zero
  /\ outcome.kind = "value"

\* ------------------------------------------------------------------------
\* C2, C6, C7, C8.  Rejection of invalid input.
\* ------------------------------------------------------------------------
Rejected(error) == outcome.kind = "raised" /\ outcome.exc = error

HasPrice == call.current_price # None

\* C2: a call with discountRate <= terminalGrowthRate (equality included)
\* is rejected with InvalidAssumption and returns no value.  Stated for
\* calls whose other arguments are valid, so that only this rule can
\* reject them.
C2_RejectsRateNotAboveTerminal ==
  (/\ Finished
   /\ call.n_future_years >= 1 /\ LengthsAgree
   /\ Less(Zero, call.total_shares)
   /\ HasPrice /\ Less(Zero, call.current_price)
   /\ LessEq(call.wacc, call.tgr))
  => Rejected("InvalidAssumption")

\* C6: a call with horizonYears <= 0 is rejected with InvalidAssumption: it
\* neither returns a value nor fails with another error.
C6_RejectsNonPositiveHorizon ==
  (Finished /\ call.n_future_years <= 0) => Rejected("InvalidAssumption")

\* C7: a call with a growth or margin sequence whose length differs from
\* horizonYears is rejected with InvalidAssumption; no value is computed
\* from a prefix of a longer sequence.  Stated for calls whose other
\* arguments are valid.
C7_RejectsLengthMismatch ==
  (/\ Finished
   /\ call.n_future_years >= 1 /\ ~LengthsAgree
   /\ Less(call.tgr, call.wacc)
   /\ Less(Zero, call.total_shares)
   /\ HasPrice /\ Less(Zero, call.current_price))
  => Rejected("InvalidAssumption")

\* C8: a call with totalShares <= 0 or currentPrice <= 0 is rejected with
\* InvalidMarketFact and returns no value.  Stated for calls whose
\* assumptions are valid.
C8_RejectsBadMarketFact ==
  (/\ Finished
   /\ call.n_future_years >= 1 /\ LengthsAgree
   /\ Less(call.tgr, call.wacc)
   /\ HasPrice
   /\ LessEq(call.total_shares, Zero) \/ LessEq(call.current_price, Zero))
  => Rejected("InvalidMarketFact")

\* ------------------------------------------------------------------------
\* C3, C10.  What the growth solve returns.
\* ------------------------------------------------------------------------
\* The residual below which a solve counts as converged.
Tolerance == <<1, 100>>

\* dcf in price-only mode at the reported required growth, broadcast over
\* the horizon, with the caller's margins, discount rate and terminal rate.
RoundTrip ==
  FairValue(Args(Full(call.n_future_years,
                      Div(outcome.required_rev_growth, <<100, 1>>)),
                 OriginalMargins, call.n_future_years, call.latest_revenue,
                 call.wacc, call.tgr, call.total_shares, call.current_price,
                 TRUE))

RoundTripError == AbsR(Sub(RoundTrip, call.current_price))

ZeroMargins == \A i \in 1..call.n_future_years : MarginOfYear(i) = Zero

C10_NonConvergenceReported ==
  (/\ outcome.kind = "tuple" /\ ValidCall /\ ZeroMargins
   /\ Less(Tolerance, opt["solve_rg"].fun))
  => outcome.required_rev_growth = Unset

\* ------------------------------------------------------------------------
\* C4.  The arguments of the dcf calls the three solves make.
\* ------------------------------------------------------------------------
\* Frame f is a call made for candidate x by the solve that caller c runs:
\* only that solve's lever differs from the original values.
OneLever(c, f, x) ==
  /\ f.n_future_years = call.n_future_years
  /\ f.latest_revenue = call.latest_revenue
  /\ f.tgr = call.tgr
  /\ f.total_shares = call.total_shares
  /\ f.current_price = call.current_price
  /\ f.rev_growth_array =
        IF c.pc = "solve_rg" THEN Full(call.n_future_years, x) ELSE OriginalGrowth
  /\ f.fcf_margins_array =
        IF c.pc = "solve_fcf" THEN Full(call.n_future_years, x) ELSE OriginalMargins
  /\ f.wacc = IF c.pc = "solve_wacc" THEN x ELSE call.wacc

\* C4: every dcf call made by a reverse solve varies that solve's lever
\* alone; the other two assumption sets are the caller's original values,
\* never a value another solve produced.
C4_OneLeverPerSolve ==
  \A i \in 2..Len(stack) :
     /\ stack[i - 1].pc \in Solves
     /\ OneLever(stack[i - 1], stack[i], Grid(stack[i - 1].pc)[stack[i - 1].idx + 1])

\* The discount-rate solve is evaluating dcf after the growth solve has
\* produced a growth rate that is not the caller's.
C4_Witness ==
  /\ Len(stack) = 2
  /\ stack[1].pc = "solve_wacc"
  /\ stack[2].pc = "forward"
  /\ Full(call.n_future_years, Div(stack[1].required_rev_growth, <<100, 1>>))
        # OriginalGrowth

\* ------------------------------------------------------------------------
\* C5.  Price-only calls start no solve.
\* ------------------------------------------------------------------------
PriceOnlyStartsNoSolve ==
  /\ Len(stack) <= 2
  /\ \A i \in 1..Len(stack) :
        (i >= 2 \/ stack[i].reverse_dcf_mode) =>
           /\ stack[i].reverse_dcf_mode
           /\ stack[i].pc \in {"broadcast", "forward"}
  /\ call.reverse_dcf_mode => opt = [s \in Solves |-> Unset]

\* The three minimisations of the outer call have returned.
AfterSolves == Len(stack) = 1 /\ stack[1].pc = "return"

\* C5: a dcf call in price-only mode returns without starting a reverse
\* solve, so dcf calls nest at most two deep (one outer call, price-only
\* inner calls); and once the three minimisations of an outer call have
\* returned, its next step is possible and ends the call.
C5_PriceOnlyNoRecursion ==
  /\ [](PriceOnlyStartsNoSolve)
  /\ [](AfterSolves => ENABLED Return)
  /\ [][AfterSolves => Finished']_vars

\* A price-only call made by the last of the three solves is running.
C5_Witness ==
  /\ Len(stack) = 2
  /\ stack[1].pc = "solve_fcf"
  /\ stack[1].idx = Len(MarginGrid) - 1
  /\ stack[2].reverse_dcf_mode
  /\ stack[2].pc = "forward"

DiscountCandidateEvaluated(i) ==
  /\ i \in 2..Len(stack)
  /\ stack[i - 1].pc = "solve_wacc"
  /\ stack[i].pc = "forward"
  /\ ForwardError(stack[i]).exc = "none"

\* C11: during the reverse discount-rate solve of a call with valid
\* arguments no candidate discount rate x <= tgr gets as far as dcf's
\* division by (wacc - tgr): every dcf call the objective makes and that
\* evaluates the terminal value has tgr < wacc.
C11_NoCandidateAtOrBelowTerminal ==
  ValidCall =>
    \A i \in 1..Len(stack) :
      DiscountCandidateEvaluated(i) => Less(stack[i].tgr, stack[i].wacc)

\* ------------------------------------------------------------------------
\* C12.  The implied CAGR of a scalar growth rate.
\* ------------------------------------------------------------------------
\* C12: when the caller gave dcf one scalar growth rate g (the other
\* arguments valid), the implied CAGR in the returned tuple is
\* round(100*g, 2).
C12_ScalarGrowthIsItsOwnCagr ==
  (ValidCall /\ outcome.kind = "tuple" /\ IsScalar(call.rev_growth_array))
     => outcome.assumed_cagr = Round2(Pct(call.rev_growth_array.a[1]))

\* ------------------------------------------------------------------------
\* calc_up_downside, provider.py lines 190-196.  With two Python floats a
\* current_price of 0 raises ZeroDivisionError; when either operand is a
\* numpy float (the fair value dcf returns is one) the division gives inf
\* or nan and a RuntimeWarning, and round passes inf and nan through.
\* ------------------------------------------------------------------------
Returned(value) == [exc |-> "none", line |-> 0, value |-> value]
Raised(exc, line) == [exc |-> exc, line |-> line, value |-> Unset]

\* calc_up_downside with the minus sign of line 194 left out.
CalcUpDownsideUnsigned(fair_value, current_price, numpy) ==
  IF current_price = Zero /\ ~numpy
  THEN Raised("ZeroDivisionError",
              IF Less(current_price, fair_value) THEN 193 ELSE 196)
  ELSE IF Less(current_price, fair_value)
  THEN Returned(Round2(Mul(Div(Sub(fair_value, current_price), current_price),
                           <<100, 1>>)))
  ELSE Returned(Round2(Mul(<<100, 1>>,
                           Div(Sub(current_price, fair_value), current_price))))

CalcUpDownside(fair_value, current_price, numpy) ==
  IF current_price = Zero /\ ~numpy
  THEN Raised("ZeroDivisionError",
              IF Less(current_price, fair_value) THEN 193 ELSE 196)
  ELSE IF Less(current_price, fair_value)
  THEN Returned(Round2(Mul(Div(Sub(fair_value, current_price), current_price),
                           <<100, 1>>)))
  ELSE Returned(Round2(Mul(<<-100, 1>>,
                           Div(Sub(current_price, fair_value), current_price))))

\* ------------------------------------------------------------------------
\* calc_cagr and calc_up_downside called on their own.
\* ------------------------------------------------------------------------
\* Yearly rates of the sequences calc_cagr is given: 1+g is -1/2, 0, 1/2, 1,
\* 4/3 or 2.
CagrRates == {Neg(<<3, 2>>), Neg(One), Neg(Half), Zero, <<1, 3>>, One}

\* Scalar rates; 100*g has three decimals for 1/800 and 3/800.
CagrScalars == CagrRates \cup {<<1, 800>>, <<3, 800>>, <<1, 8>>}

CagrSequences == UNION {[1..L -> CagrRates] : L \in 1..(MaxYears + 1)}

HelperCall(fn, g, N, fv, p, numpy) ==
  [fn |-> fn, rev_growth_array |-> g, N |-> N,
   fair_value |-> fv, current_price |-> p, numpy |-> numpy,
   pc |-> "called", result |-> Unset, exc |-> "none", line |-> 0]

\* Calls of calc_cagr whose N-th root is exact.
CagrCalls ==
  {HelperCall("calc_cagr", Scalar(g), N, Unset, Unset, FALSE) :
       g \in CagrScalars, N \in 1..(MaxYears + 1)}
  \cup
  {c \in {HelperCall("calc_cagr", Array(s), N, Unset, Unset, FALSE) :
              s \in CagrSequences, N \in 1..(MaxYears + 1)} :
     HasRoot(FinalVal(c.rev_growth_array.a, Len(c.rev_growth_array.a)), c.N)}

\* Fair values and prices calc_up_downside is given: the pairs (120, 100)
\* and (80, 100), values a hair away from the price, ties of the rounding,
\* zero and negative values.
UpDownFairValues ==
  {Zero, <<4, 1>>, <<80, 1>>, <<100, 1>>, <<120, 1>>, <<25001, 6250>>,
   <<24999, 6250>>, <<801, 8>>, <<799, 8>>, <<-2, 1>>}
UpDownPrices == {Zero, <<4, 1>>, <<100, 1>>, <<-4, 1>>}

UpDownCalls ==
  {HelperCall("calc_up_downside", Scalar(Zero), 0, fv, p, numpy) :
       fv \in UpDownFairValues, p \in UpDownPrices, numpy \in BOOLEAN}

\* No dcf call is running.
NoDcf ==
  /\ call = Unset
  /\ stack = <<>>
  /\ opt = [s \in Solves |-> Unset]
  /\ outcome = NoOutcome

InitHelpers ==
  /\ helper \in CagrCalls \cup UpDownCalls
  /\ NoDcf
  /\ cli = Unset /\ gui = Unset /\ par = Unset /\ batch = Unset

CalcCagrCall ==
  /\ helper.fn = "calc_cagr"
  /\ helper.pc = "called"
  /\ helper' = [helper EXCEPT
        !.pc = "returned",
        !.result = CalcCagr(helper.rev_growth_array, helper.N)]
  /\ UNCHANGED <<call, stack, opt, outcome, cli, gui, par, batch>>

CalcUpDownsideCall ==
  /\ helper.fn = "calc_up_downside"
  /\ helper.pc = "called"
  /\ LET r == CalcUpDownside(helper.fair_value, helper.current_price,
                             helper.numpy)
     IN  helper' = [helper EXCEPT
            !.pc = IF r.exc = "none" THEN "returned" ELSE "raised",
            !.result = r.value, !.exc = r.exc, !.line = r.line]
  /\ UNCHANGED <<call, stack, opt, outcome, cli, gui, par, batch>>

NextHelpers ==
  \/ CalcCagrCall
  \/ CalcUpDownsideCall

SpecHelpers == InitHelpers /\ [][NextHelpers]_vars

\* ------------------------------------------------------------------------
\* C13, C14.  calc_cagr on a sequence of N yearly rates.
\* ------------------------------------------------------------------------
\* calc_cagr has returned for a sequence with one rate per year.
CagrOfSequence ==
  /\ helper.fn = "calc_cagr"
  /\ helper.pc = "returned"
  /\ ~IsScalar(helper.rev_growth_array)
  /\ Len(helper.rev_growth_array.a) = helper.N

\* M, the product of the factors 1+g_i of the sequence given.
Multiplier == FinalVal(helper.rev_growth_array.a, Len(helper.rev_growth_array.a))

EqualRates == \A i \in 1..helper.N : helper.rev_growth_array.a[i] = helper.rev_growth_array.a[1]

\* The rationals p/q and -p/q with small p and q: every N-th root that
\* occurs is one of them.
Fractions == {Norm(p, q) : p \in 0..4, q \in 1..4}
SignedFractions == Fractions \cup {Neg(r) : r \in Fractions}

\* The result is a finite number, 100 * sign(M) * (|M|^(1/N) - 1) rounded to
\* two decimals, the root being the r >= 0 with r^N = |M|.
SignedRootFormula ==
  /\ IsFinite(helper.result)
  /\ \E r \in Fractions :
        /\ Pow(r, helper.N) = AbsR(Multiplier)
        /\ helper.result =
             Round2(Mul(<<100 * Sgn(Multiplier[1]), 1>>, Sub(r, One)))

\* C13 as stated: calc_cagr on a sequence returns the signed-root formula,
\* and N equal rates g return 100*g (to two decimals), whatever g is.
C13_EqualRatesAnyRate ==
  CagrOfSequence =>
     /\ SignedRootFormula
     /\ EqualRates => helper.result = Round2(Pct(helper.rev_growth_array.a[1]))

\* C13 (amended): calc_cagr on a sequence returns the signed-root formula,
\* and N equal rates g > -1 return 100*g (to two decimals).
C13_SignedRoot ==
  CagrOfSequence =>
     /\ SignedRootFormula
     /\ (EqualRates /\ Less(Neg(One), helper.rev_growth_array.a[1]))
           => helper.result = Round2(Pct(helper.rev_growth_array.a[1]))

\* calc_cagr returned 33.33 for two or more years of 1/3 each.
C13_Witness ==
  /\ CagrOfSequence
  /\ EqualRates
  /\ helper.N >= 2
  /\ helper.rev_growth_array.a[1] = <<1, 3>>
  /\ helper.result = <<3333, 100>>

\* The returned c is the rounding of a rate c* with (1 + c*/100)^N = M.
ReproducesGrowth ==
  \E r \in SignedFractions :
     /\ Pow(r, helper.N) = Multiplier
     /\ helper.result = Round2(Pct(Sub(r, One)))

\* C14 as stated: for every sequence the returned CAGR c satisfies
\* (1 + c/100)^N = M up to the rounding of c.
C14_ReproducesGrowthAnyPath == CagrOfSequence => ReproducesGrowth

\* C14 (amended): the returned CAGR c satisfies (1 + c/100)^N = M up to the
\* rounding of c whenever M > 0.
C14_ReproducesPositiveGrowth ==
  (CagrOfSequence /\ Less(Zero, Multiplier)) => ReproducesGrowth

\* calc_cagr returned 0 for the two years -1/2 and +1: M = 1.
C14_Witness ==
  /\ CagrOfSequence
  /\ helper.N = 2
  /\ ~EqualRates
  /\ Multiplier = One
  /\ helper.result = Zero

\* ------------------------------------------------------------------------
\* C15, C16.  calc_up_downside.
\* ------------------------------------------------------------------------
UpDownReturned ==
  /\ helper.fn = "calc_up_downside"
  /\ helper.pc = "returned"

\* ((fair_value - current_price) / current_price) * 100 to two decimals.
PercentDifference ==
  Round2(Mul(Div(Sub(helper.fair_value, helper.current_price),
                 helper.current_price), <<100, 1>>))

\* (120, 100) gives 20.00 and (80, 100) gives -20.00.
UpDownExamples ==
  /\ (helper.fair_value = <<120, 1>> /\ helper.current_price = <<100, 1>>)
        => helper.result = <<20, 1>>
  /\ (helper.fair_value = <<80, 1>> /\ helper.current_price = <<100, 1>>)
        => helper.result = <<-20, 1>>

\* C15 as stated: for a price other than 0 the result is the percent
\* difference to two decimals whichever branch ran, and for a price above 0
\* it is positive exactly when the fair value is above the price and
\* negative when it is below.
C15_SignExactlyFollowsOrder ==
  (UpDownReturned /\ helper.current_price # Zero) =>
     /\ helper.result = PercentDifference
     /\ UpDownExamples
     /\ Less(Zero, helper.current_price) =>
          /\ Less(Zero, helper.result)
                <=> Less(helper.current_price, helper.fair_value)
          /\ Less(helper.fair_value, helper.current_price)
                => Less(helper.result, Zero)

\* C15 (amended): for a price other than 0 the result is the percent
\* difference to two decimals whichever branch ran, and for a price above 0
\* it is never negative when the fair value is above the price, never
\* positive when it is below, and 0 when the two are equal.
C15_PercentDifference ==
  (UpDownReturned /\ helper.current_price # Zero) =>
     /\ helper.result = PercentDifference
     /\ UpDownExamples
     /\ Less(Zero, helper.current_price) =>
          /\ Less(Zero, helper.result)
                => Less(helper.current_price, helper.fair_value)
          /\ Less(helper.result, Zero)
                => Less(helper.fair_value, helper.current_price)
          /\ helper.fair_value = helper.current_price => helper.result = Zero

\* calc_up_downside(80, 100) returned -20.00 from its else branch.
C15_Witness ==
  /\ UpDownReturned
  /\ helper.fair_value = <<80, 1>>
  /\ helper.current_price = <<100, 1>>
  /\ helper.result = <<-20, 1>>

\* C16: calc_up_downside with a current price of 0 raises for every fair
\* value; it never returns.
C16_ZeroPriceRaises ==
  (helper.fn = "calc_up_downside" /\ helper.current_price = Zero
      /\ helper.pc # "called")
     => helper.pc = "raised"

\* ------------------------------------------------------------------------
\* C17.  Rounding of the fair value.
\* ------------------------------------------------------------------------
\* C17: the fair value dcf returns for valid arguments is the unrounded
\* quotient of today's total value and total_shares, in the full mode (the
\* first element of the tuple) as well as in price-only mode.
C17_FairValueUnrounded ==
  (ValidCall /\ outcome.kind \in {"value", "tuple"})
     => outcome.fair_value = ClosedForm

\* ------------------------------------------------------------------------
\* One whole call of dcf as its caller sees it (lines 111-188): what the
\* steps above arrive at, as a function of the arguments.  DcfAgreesWithSteps
\* ties the two together.
\* ------------------------------------------------------------------------
RaisedOutcome(exc, line, during) ==
  [NoOutcome EXCEPT !.kind = "raised", !.exc = exc, !.line = line,
                    !.during = during]

\* The arrays of a frame after lines 113-117, for n_future_years >= 0 or
\* arrays given.
Broadcasted(f) ==
  [f EXCEPT
     !.rev_growth_array =
         IF IsScalar(@) THEN Full(f.n_future_years, @.a[1]) ELSE @,
     !.fcf_margins_array =
         IF IsScalar(@) THEN Full(f.n_future_years, @.a[1]) ELSE @]

\* What the objective of solve pc returns for candidate x, lines 152-169:
\* the exception of the dcf call it makes, or abs(fair value - current_price).
Objective(f, pc, x) ==
  LET inner == Broadcasted(NewFrame(ObjectiveArgs([f EXCEPT !.pc = pc], x)))
  IN  IF ForwardError(inner).exc # "none"
      THEN Raised(ForwardError(inner).exc, ForwardError(inner).line)
      ELSE IF f.current_price = None
      THEN Raised("TypeError", ObjectiveLine(pc))
      ELSE Returned(AbsR(Sub(FairValue(inner), f.current_price)))

\* The best point among the first k the minimiser tried, and its value; of
\* two equally good points the earlier one is kept.
RECURSIVE BestOf(_, _, _)
BestOf(f, pc, k) ==
  LET x == Grid(pc)[k]
      fun == Objective(f, pc, x).value
  IN  IF k = 1 THEN [x |-> x, fun |-> fun]
      ELSE LET b == BestOf(f, pc, k - 1)
           IN  IF Less(fun, b.fun) THEN [x |-> x, fun |-> fun] ELSE b

\* round(100 * minimize_scalar(...).x, 2), lines 171-184.
Required(f, pc) == Round2(Pct(BestOf(f, pc, Len(Grid(pc))).x))

Dcf(a) ==
  LET n == a.n_future_years
      f == Broadcasted(NewFrame(a))
      first == Objective(f, "solve_rg", Grid("solve_rg")[1])
  IN  IF n < 0 /\ IsScalar(a.rev_growth_array)
        THEN RaisedOutcome("ValueError", 114, "broadcast")
      ELSE IF n < 0 /\ IsScalar(a.fcf_margins_array)
        THEN RaisedOutcome("ValueError", 117, "broadcast")
      ELSE IF ForwardError(f).exc # "none"
        THEN RaisedOutcome(ForwardError(f).exc, ForwardError(f).line, "forward")
      ELSE IF a.reverse_dcf_mode
        THEN [NoOutcome EXCEPT !.kind = "value", !.fair_value = FairValue(f)]
      ELSE IF first.exc # "none"
        THEN RaisedOutcome(first.exc, first.line, "solve_rg")
      ELSE [NoOutcome EXCEPT
              !.kind = "tuple",
              !.fair_value = Round2(FairValue(f)),
              !.required_rev_growth = Required(f, "solve_rg"),
              !.required_discount_rate = Required(f, "solve_wacc"),
              !.required_fcf_margin = Required(f, "solve_fcf"),
              !.assumed_cagr = CalcCagr(f.rev_growth_array, n)]

\* The outcome of the steps is the outcome of the call as a whole.
DcfAgreesWithSteps == Finished => outcome = Dcf(call)

\* ------------------------------------------------------------------------
\* Invocations run side by side.  One caller holds a growth array and a
\* margin array and starts dcf, calc_cagr and calc_up_downside on them in
\* parallel; an invocation receives a reference to the caller's array, not
\* a copy.  Each invocation advances by the steps of dcf above (broadcast,
\* forward pass, one objective evaluation at a time, return), and the steps
\* of different invocations interleave in any order.
\* ------------------------------------------------------------------------
Threads == {1, 2}

\* An array argument passed by reference: the caller's object of that name.
Ref(name) == [shape |-> "array", ref |-> name]
IsRef(x) == "ref" \in DOMAIN x

\* What a name is bound to, read through the heap.
Deref(heap, x) == IF IsRef(x) THEN Array(heap[x.ref]) ELSE x

\* A frame or argument record with its two arrays read through the heap.
View(heap, f) ==
  [f EXCEPT !.rev_growth_array = Deref(heap, @),
            !.fcf_margins_array = Deref(heap, @)]

\* The caller's arrays after lines 119-146 ran on frame f: the lines index
\* the arrays and never assign to an element, so the arrays are as before.
\* The mutant adds 1 to the growth array in place (rev_growth_array += 1)
\* before compounding.
HeapAfterForwardInPlace(heap, f) ==
  IF IsRef(f.rev_growth_array)
  THEN [heap EXCEPT ![f.rev_growth_array.ref] =
           [i \in DOMAIN @ |-> Add(One, @[i])]]
  ELSE heap

HeapAfterForward(heap, f) == heap

\* The caller's arrays: one entry per year of the longest horizon.
ParGrowthArrays == {[i \in 1..MaxYears |-> x] : x \in {One, Neg(Half)}}
ParMarginArrays == {[i \in 1..MaxYears |-> IF i % 2 = 1 THEN Half ELSE Quarter]}

ParThread(fn, args, frame) ==
  [fn |-> fn, args |-> args, frame |-> frame,
   pc |-> "called", result |-> Unset]

ParDcf(g, m, n, p, mode) ==
  LET a == Args(g, m, n, <<8, 1>>, One, Quarter, <<2, 1>>, p, mode)
  IN  ParThread("dcf", a, NewFrame(a))

\* The invocations a thread may be: dcf in full and in price-only mode on
\* the caller's arrays and on scalars, calls that raise (negative horizon,
\* horizon longer than the array, no price), calc_cagr on the caller's
\* array, calc_up_downside.
ParCalls ==
  {ParDcf(Ref("G"), Ref("M"), MaxYears, <<4, 1>>, FALSE),
   ParDcf(Scalar(One), Ref("M"), MaxYears, <<4, 1>>, FALSE),
   ParDcf(Ref("G"), Scalar(Half), MaxYears, <<4, 1>>, TRUE),
   ParDcf(Scalar(Zero), Scalar(Half), -1, <<4, 1>>, FALSE),
   ParDcf(Ref("G"), Ref("M"), MaxYears + 1, <<4, 1>>, FALSE),
   ParDcf(Ref("G"), Ref("M"), MaxYears, None, FALSE),
   ParThread("calc_cagr",
             HelperCall("calc_cagr", Ref("G"), MaxYears, Unset, Unset, FALSE),
             Unset),
   ParThread("calc_up_downside",
             HelperCall("calc_up_downside", Scalar(Zero), 0,
                        <<120, 1>>, <<100, 1>>, TRUE),
             Unset)}

InitPar ==
  /\ \E g \in ParGrowthArrays, m \in ParMarginArrays, th \in [Threads -> ParCalls] :
        par = [heap |-> [G |-> g, M |-> m], th |-> th]
  /\ NoDcf
  /\ helper = Unset /\ cli = Unset /\ gui = Unset /\ batch = Unset

\* Thread t goes on with frame f; the caller's arrays become heap.
ParStep(t, f, heap) ==
  par' = [heap |-> heap,
          th |-> [par.th EXCEPT ![t] = [@ EXCEPT !.frame = f, !.pc = "running"]]]

\* Thread t's call ends with result: its frame is gone.
ParFinish(t, result, heap) ==
  par' = [heap |-> heap,
          th |-> [par.th EXCEPT ![t] =
                    [@ EXCEPT !.frame = Unset, !.pc = "done", !.result = result]]]

ParRunsDcf(t, pcs) ==
  /\ par.th[t].fn = "dcf"
  /\ par.th[t].pc # "done"
  /\ par.th[t].frame.pc \in pcs

\* Lines 113-117.
ParBroadcast(t) ==
  /\ ParRunsDcf(t, {"broadcast"})
  /\ LET f == par.th[t].frame
         n == f.n_future_years
     IN  IF n < 0 /\ IsScalar(f.rev_growth_array)
           THEN ParFinish(t, RaisedOutcome("ValueError", 114, "broadcast"), par.heap)
         ELSE IF n < 0 /\ IsScalar(f.fcf_margins_array)
           THEN ParFinish(t, RaisedOutcome("ValueError", 117, "broadcast"), par.heap)
         ELSE ParStep(t, [Broadcasted(f) EXCEPT !.pc = "forward"], par.heap)
  /\ UNCHANGED <<call, stack, opt, outcome, helper, cli, gui, batch>>

\* Lines 119-149 of the outermost call of thread t.
ParForward(t) ==
  /\ ParRunsDcf(t, {"forward"})
  /\ LET f == par.th[t].frame
         v == View(par.heap, f)
         heap == HeapAfterForward(par.heap, f)
     IN  IF ForwardError(v).exc # "none"
           THEN ParFinish(t, RaisedOutcome(ForwardError(v).exc,
                                           ForwardError(v).line, "forward"),
                          par.heap)
         ELSE IF f.reverse_dcf_mode
           THEN ParFinish(t, [NoOutcome EXCEPT !.kind = "value",
                                               !.fair_value = FairValue(v)],
                          heap)
         ELSE ParStep(t, [f EXCEPT
                  !.fair_value = FairValue(v),
                  !.assumed_cagr = CalcCagr(v.rev_growth_array, f.n_future_years),
                  !.pc = "solve_rg"], heap)
  /\ UNCHANGED <<call, stack, opt, outcome, helper, cli, gui, batch>>

\* One call of the objective by the running minimize_scalar of thread t:
\* lines 152-169, and lines 113-149 of the dcf call it makes.
ParObjective(t) ==
  /\ ParRunsDcf(t, Solves)
  /\ par.th[t].frame.idx < Len(Grid(par.th[t].frame.pc))
  /\ LET f == par.th[t].frame
         x == Grid(f.pc)[f.idx + 1]
         inner == Broadcasted(NewFrame(ObjectiveArgs(f, x)))
         v == View(par.heap, inner)
         heap == HeapAfterForward(par.heap, inner)
         fun == AbsR(Sub(FairValue(v), f.current_price))
         better == f.idx = 0 \/ Less(fun, f.best_f)
     IN  IF ForwardError(v).exc # "none"
           THEN ParFinish(t, RaisedOutcome(ForwardError(v).exc,
                                           ForwardError(v).line, f.pc), par.heap)
         ELSE IF f.current_price = None
           THEN ParFinish(t, RaisedOutcome("TypeError", ObjectiveLine(f.pc), f.pc),
                          heap)
         ELSE ParStep(t, [f EXCEPT
                  !.idx = @ + 1,
                  !.best_x = IF better THEN x ELSE @,
                  !.best_f = IF better THEN fun ELSE @], heap)
  /\ UNCHANGED <<call, stack, opt, outcome, helper, cli, gui, batch>>

\* Lines 171-184: minimize_scalar of thread t returns.
ParMinimizeReturn(t) ==
  /\ ParRunsDcf(t, Solves)
  /\ par.th[t].frame.idx = Len(Grid(par.th[t].frame.pc))
  /\ LET f == par.th[t].frame
         required == Round2(Pct(f.best_x))
     IN  ParStep(t, [f EXCEPT
            !.required_rev_growth = IF f.pc = "solve_rg" THEN required ELSE @,
            !.required_discount_rate = IF f.pc = "solve_wacc" THEN required ELSE @,
            !.required_fcf_margin = IF f.pc = "solve_fcf" THEN required ELSE @,
            !.pc = NextPc(f.pc),
            !.idx = 0, !.best_x = Unset, !.best_f = Unset], par.heap)
  /\ UNCHANGED <<call, stack, opt, outcome, helper, cli, gui, batch>>

\* Line 188.
ParReturn(t) ==
  /\ ParRunsDcf(t, {"return"})
  /\ LET f == par.th[t].frame
     IN  ParFinish(t, [NoOutcome EXCEPT
            !.kind = "tuple",
            !.fair_value = Round2(f.fair_value),
            !.required_rev_growth = f.required_rev_growth,
            !.required_discount_rate = f.required_discount_rate,
            !.required_fcf_margin = f.required_fcf_margin,
            !.assumed_cagr = f.assumed_cagr], par.heap)
  /\ UNCHANGED <<call, stack, opt, outcome, helper, cli, gui, batch>>

\* calc_cagr, lines 250-256: the loop reads the array.
ParCalcCagr(t) ==
  /\ par.th[t].fn = "calc_cagr"
  /\ par.th[t].pc = "called"
  /\ LET a == par.th[t].args
     IN  ParFinish(t, Returned(CalcCagr(Deref(par.heap, a.rev_growth_array), a.N)),
                   par.heap)
  /\ UNCHANGED <<call, stack, opt, outcome, helper, cli, gui, batch>>

\* calc_up_downside, lines 190-196.
ParCalcUpDownside(t) ==
  /\ par.th[t].fn = "calc_up_downside"
  /\ par.th[t].pc = "called"
  /\ LET a == par.th[t].args
     IN  ParFinish(t, CalcUpDownside(a.fair_value, a.current_price, a.numpy),
                   par.heap)
  /\ UNCHANGED <<call, stack, opt, outcome, helper, cli, gui, batch>>

NextPar ==
  \E t \in Threads :
    \/ ParBroadcast(t)
    \/ ParForward(t)
    \/ ParObjective(t)
    \/ ParMinimizeReturn(t)
    \/ ParReturn(t)
    \/ ParCalcCagr(t)
    \/ ParCalcUpDownside(t)

SpecPar == InitPar /\ [][NextPar]_vars

\* ------------------------------------------------------------------------
\* C18.  Independence of invocations.
\* ------------------------------------------------------------------------
\* What invocation t returns when it runs alone on the caller's arrays.
Alone(t) ==
  LET a == par.th[t].args
  IN  IF par.th[t].fn = "dcf" THEN Dcf(View(par.heap, a))
      ELSE IF par.th[t].fn = "calc_cagr"
        THEN Returned(CalcCagr(Deref(par.heap, a.rev_growth_array), a.N))
      ELSE CalcUpDownside(a.fair_value, a.current_price, a.numpy)

\* C18: whatever the interleaving, every finished invocation has the
\* result it has when run alone and has left no frame behind, and no step
\* of dcf, calc_cagr or calc_up_downside changes the caller's arrays.
C18_InvocationsIndependent ==
  /\ [](\A t \in Threads :
          par.th[t].pc = "done"
             => par.th[t].result = Alone(t) /\ par.th[t].frame = Unset)
  /\ [][par'.heap = par.heap]_vars

\* Two full dcf calls on the same growth array are both in the middle of a
\* reverse solve, one of them ahead of the other.
C18_Witness ==
  /\ \A t \in Threads :
        /\ par.th[t].fn = "dcf"
        /\ par.th[t].pc = "running"
        /\ IsRef(par.th[t].frame.rev_growth_array)
  /\ par.th[1].frame.pc = "solve_fcf" /\ par.th[1].frame.idx = 2
  /\ par.th[2].frame.pc = "solve_rg" /\ par.th[2].frame.idx = 1

\* ------------------------------------------------------------------------
\* The result tuple of dcf and the functions that report it.
\* ------------------------------------------------------------------------
\* The tuple of line 188 with the margin put before the discount rate.
ResultTupleMarginThird(o) ==
  <<o.fair_value, o.required_rev_growth, o.required_fcf_margin,
    o.required_discount_rate, o.assumed_cagr>>

\* The tuple of line 188, by position.
ResultTuple(o) ==
  <<o.fair_value, o.required_rev_growth, o.required_discount_rate,
    o.required_fcf_margin, o.assumed_cagr>>

\* np.average of a margin path (lines 202-205, 227-230); a single margin is
\* left as it is.
RECURSIVE SumOf(_, _)
SumOf(s, k) == IF k = 0 THEN Zero ELSE Add(SumOf(s, k - 1), s[k])
AverageMargin(fcf_margins) ==
  IF IsScalar(fcf_margins) THEN fcf_margins.a[1]
  ELSE Div(SumOf(fcf_margins.a, Len(fcf_margins.a)),
           <<Len(fcf_margins.a), 1>>)

\* print_calculated_info, lines 198-221: line 200 unpacks results, and each
\* sentence printed is given here by the values formatted into it.
\* prev_rev_growth, prev_fcf_margin are parameters the body never reads.
PrintCalculatedInfo(results, current_price, fcf_margins, tkr, tgr, wacc, n_future_years) ==
  LET fv == results[1]
      r_rg == results[2]
      r_wacc == results[3]
      r_fcf == results[4]
      rev_growth == results[5]
  IN  [for_next_years |-> n_future_years,
       assuming_revenue_growth |-> rev_growth,
       assuming_fcf_margin |-> AverageMargin(fcf_margins),
       assuming_terminal_growth |-> tgr,
       stock |-> tkr,
       fair_value |-> fv,
       to_get_return |-> wacc,
       previous_close |-> current_price,
       upside_downside |-> CalcUpDownside(fv, current_price, TRUE).value,
       would_have_to_grow_at |-> r_rg,
       or_have_fcf_margin_of |-> r_fcf,
       or_you_get_return |-> r_wacc]

\* get_calculated_info, lines 223-248: the same sentences joined into one
\* string and returned.
GetCalculatedInfo(results, current_price, fcf_margins, tkr, tgr, wacc, n_future_years) ==
  LET fv == results[1]
      r_rg == results[2]
      r_wacc == results[3]
      r_fcf == results[4]
      rev_growth == results[5]
  IN  [for_next_years |-> n_future_years,
       assuming_revenue_growth |-> rev_growth,
       assuming_fcf_margin |-> AverageMargin(fcf_margins),
       assuming_terminal_growth |-> tgr,
       stock |-> tkr,
       fair_value |-> fv,
       to_get_return |-> wacc,
       previous_close |-> current_price,
       upside_downside |-> CalcUpDownside(fv, current_price, TRUE).value,
       would_have_to_grow_at |-> r_rg,
       or_have_fcf_margin_of |-> r_fcf,
       or_you_get_return |-> r_wacc]

\* ------------------------------------------------------------------------
\* get_info as its callers see it (provider.py lines 14-109): it fetches the
\* market facts of a ticker over the network and returns them as one tuple,
\* or an exception leaves it.
\* ------------------------------------------------------------------------
\* The number of values of the tuple line 109 returns.
GetInfoArity == 6

\* The number of names the call sites unpack that tuple into.
CliUnpackArity == 7

\* What a call of get_info gives: "raised", or the market facts returned.
GetInfoOutcomes ==
  {[kind |-> "raised", current_price |-> Unset, total_shares |-> Unset,
    starting_rev |-> Unset]}
  \cup
  {[kind |-> "returned", current_price |-> p, total_shares |-> sh,
    starting_rev |-> <<8, 1>>] : p \in {Zero, <<4, 1>>}, sh \in {<<2, 1>>}}

\* ------------------------------------------------------------------------
\* get_fair_value.py, the command-line tool.
\* ------------------------------------------------------------------------
\* x/100. of lines 66-69.
FromPercent(x) == Div(x, <<100, 1>>)

\* args.rev_growth and args.fcf_margin: nargs="+" gives a list of one or
\* more floats (percent).
CliGrowthLists ==
  UNION {[1..L -> {<<100, 1>>, <<-50, 1>>}] : L \in 1..MaxYears}
CliMarginLists == {<<<<50, 1>>>>, <<<<50, 1>>, <<25, 1>>>>}

CliRuns ==
  [rev_growth : CliGrowthLists, fcf_margin : CliMarginLists,
   N : 1..MaxYears, rrr : {<<25, 1>>, <<100, 1>>}, tgr : {Zero, <<25, 1>>},
   S : BOOLEAN]

InitCli ==
  /\ \E args \in CliRuns :
        cli = [args |-> args, pc |-> "parse",
               n_future_years |-> Unset, discount_rate |-> Unset,
               rev_growth_rate |-> Unset, fcf_margin |-> Unset,
               term_growth_rate |-> Unset,
               dcf_args |-> Unset, results |-> Unset, report |-> Unset,
               exc |-> "none", line |-> 0]
  /\ NoDcf
  /\ helper = Unset /\ gui = Unset /\ par = Unset /\ batch = Unset

\* Lines 61-69: the user-defined parameters.
CliParse ==
  /\ cli.pc = "parse"
  /\ cli' = [cli EXCEPT
        !.n_future_years = cli.args.N,
        !.discount_rate = FromPercent(cli.args.rrr),
        !.rev_growth_rate = Scalar(FromPercent(cli.args.rev_growth[1])),
        !.fcf_margin = Scalar(FromPercent(cli.args.fcf_margin[1])),
        !.term_growth_rate = FromPercent(cli.args.tgr),
        !.pc = "get_info"]
  /\ UNCHANGED <<call, stack, opt, outcome, helper, gui, par, batch>>

\* Lines 72-84: get_info, the unpacking of its tuple, dcf, the report.
\* Nothing catches an exception: the run ends with it.
CliMain ==
  /\ cli.pc = "get_info"
  /\ \E info \in GetInfoOutcomes :
        IF info.kind = "raised"
          THEN cli' = [cli EXCEPT !.pc = "raised", !.exc = "Exception", !.line = 72]
        ELSE IF GetInfoArity # CliUnpackArity
          THEN cli' = [cli EXCEPT !.pc = "raised", !.exc = "ValueError", !.line = 72]
        ELSE LET a == Args(cli.rev_growth_rate, cli.fcf_margin,
                           cli.n_future_years, info.starting_rev,
                           cli.discount_rate, cli.term_growth_rate,
                           info.total_shares, info.current_price, FALSE)
                 results == Dcf(a)
             IN  IF results.kind = "raised"
                   THEN cli' = [cli EXCEPT !.pc = "raised", !.dcf_args = a,
                                           !.exc = results.exc, !.line = 74]
                 ELSE cli' = [cli EXCEPT
                        !.pc = "done", !.dcf_args = a, !.results = results,
                        !.report =
                           IF cli.args.S THEN Unset
                           ELSE PrintCalculatedInfo(
                                  ResultTuple(results), info.current_price,
                                  Scalar(Round2(Pct(cli.fcf_margin.a[1]))),
                                  "AAPL",
                                  Round2(Pct(cli.term_growth_rate)),
                                  Round2(Pct(cli.discount_rate)),
                                  cli.n_future_years)]
  /\ UNCHANGED <<call, stack, opt, outcome, helper, gui, par, batch>>

NextCli ==
  \/ CliParse
  \/ CliMain

SpecCli == InitCli /\ [][NextCli]_vars

\* ------------------------------------------------------------------------
\* C19.  Lists of rates on the command line.
\* ------------------------------------------------------------------------
\* The rates of a list given in percent.
RatesOf(list) == Array([i \in 1..Len(list) |-> FromPercent(list[i])])

\* C19: when the command line gives a list of growth rates (or of margins),
\* the growth (margin) the tool holds for dcf once it has read its
\* arguments is the whole list as the per-year path, not its first element.
C19_WholeListReachesDcf ==
  cli.pc # "parse" =>
     /\ Len(cli.args.rev_growth) > 1
           => cli.rev_growth_rate = RatesOf(cli.args.rev_growth)
     /\ Len(cli.args.fcf_margin) > 1
           => cli.fcf_margin = RatesOf(cli.args.fcf_margin)


\* ------------------------------------------------------------------------
\* GUI.py and GUI_WIP.py, the window of class DCFApp.  gui holds the text of
\* every entry and, for the handler that ran last, the exception it ended
\* with and the locals it had bound.  A handler is one action: Qt runs a
\* slot to its end before the next event.
\* ------------------------------------------------------------------------
Programs == {"GUI.py", "GUI_WIP.py"}

\* The number of names each calculate_dcf and populate_info unpacks the
\* tuple of get_info into.
GuiUnpackArity == 7
GuiWipUnpackArity == 6
UnpackArity(program) ==
  IF program = "GUI.py" THEN GuiUnpackArity ELSE GuiWipUnpackArity

\* Lines of the handlers in either file.
GuiLines ==
  [program \in Programs |->
     IF program = "GUI.py"
       THEN [rev_growth |-> 235, fcf_margin |-> 236, nyears |-> 237,
             wacc |-> 238, tgr |-> 239, get_info |-> 256, dcf |-> 262,
             populate |-> 220]
       ELSE [rev_growth |-> 297, fcf_margin |-> 298, nyears |-> 299,
             wacc |-> 300, tgr |-> 301, get_info |-> 311, dcf |-> 317,
             populate |-> 288]]

\* The text of an input entry: empty, or the number it spells.  float('')
\* and int('') raise ValueError.
Empty == [empty |-> TRUE, number |-> Zero]
Text(x) == [empty |-> FALSE, number |-> x]

\* What an output entry shows: nothing, the word Error, or a value.  The
\* label rev_dcf_start shows its fixed words alone (Blank) or with a price.
Blank == [text |-> "", value |-> Unset]
ErrorText == [text |-> "Error", value |-> Unset]
Shown(v) == [text |-> "value", value |-> v]

\* The entries the user types into, and the texts tried in each.  The
\* constructor puts 7, 10 and 2.5 into the last three.
InputEntries ==
  {"rev_growth_entry", "fcf_margin_entry", "nyears_entry", "wacc_entry",
   "tgr_entry"}
DefaultYears == Text(<<7, 1>>)
\* The horizons typed over the default; a calculation is followed for these.
GuiHorizons == (-1)..2
DefaultWacc == Text(<<10, 1>>)
DefaultTgr == Text(<<5, 2>>)
EntryTexts ==
  [rev_growth_entry |-> {Empty, Text(<<50, 1>>)},
   fcf_margin_entry |-> {Empty, Text(<<50, 1>>)},
   nyears_entry |-> {Empty, DefaultYears}
                      \cup {Text(<<n, 1>>) : n \in GuiHorizons},
   wacc_entry |-> {Empty, DefaultWacc},
   tgr_entry |-> {Empty, DefaultTgr}]
Tickers == {"", "AAPL"}

\* The entries calculate_dcf writes results into.  GUI.py has, besides, the
\* read-only entries curr_rev_entry ... mcap_entry (info_entries here) and
\* erev_entry.
OutputEntries ==
  {"fv_entry", "cp_entry", "ud_entry", "rrev_entry", "rfcf_entry",
   "rwacc_entry"}

\* The locals of a handler before it binds any; fetched tells that its
\* get_info call has returned, began_on_results that fv_entry showed a
\* value when calculate_dcf began.
NoLocals ==
  [began_on_results |-> FALSE, fetched |-> FALSE, current_price |-> Unset,
   results |-> NoOutcome]

\* The window after __init__.
InitGui ==
  /\ \E program \in Programs :
        gui = [program |-> program,
               ticker_entry |-> "",
               rev_growth_entry |-> Empty, fcf_margin_entry |-> Empty,
               nyears_entry |-> DefaultYears, wacc_entry |-> DefaultWacc,
               tgr_entry |-> DefaultTgr,
               fv_entry |-> Blank, cp_entry |-> Blank, ud_entry |-> Blank,
               rrev_entry |-> Blank, rfcf_entry |-> Blank,
               rwacc_entry |-> Blank, erev_entry |-> Blank,
               info_entries |-> Blank, info_text |-> Blank,
               rev_dcf_start |-> Blank,
               last |-> "__init__", exc |-> "none", line |-> 0,
               locals |-> NoLocals]
  /\ NoDcf
  /\ helper = Unset /\ cli = Unset /\ par = Unset /\ batch = Unset

\* The user types into an entry.
EditEntry ==
  /\ \/ \E entry \in InputEntries : \E text \in EntryTexts[entry] :
           /\ gui[entry] # text
           /\ gui' = [gui EXCEPT ![entry] = text, !.last = "edit",
                                 !.exc = "none", !.line = 0,
                                 !.locals = NoLocals]
     \/ \E ticker \in Tickers :
           /\ gui.ticker_entry # ticker
           /\ gui' = [gui EXCEPT !.ticker_entry = ticker, !.last = "edit",
                                 !.exc = "none", !.line = 0,
                                 !.locals = NoLocals]
  /\ UNCHANGED <<call, stack, opt, outcome, helper, cli, par, batch>>

\* The conversions with only the first of them made before the try block.
FirstEmptyGrowthOnly(g) ==
  IF g.rev_growth_entry.empty THEN "rev_growth" ELSE "none"

\* The first of the five conversions of calculate_dcf that raises.
FirstEmpty(g) ==
  IF g.rev_growth_entry.empty THEN "rev_growth"
  ELSE IF g.fcf_margin_entry.empty THEN "fcf_margin"
  ELSE IF g.nyears_entry.empty THEN "nyears"
  ELSE IF g.wacc_entry.empty THEN "wacc"
  ELSE IF g.tgr_entry.empty THEN "tgr"
  ELSE "none"

\* The clear() calls with all but the first of them left out.
ClearedFairValueOnly(g) == [g EXCEPT !.fv_entry = Blank]

\* The window with every output of calculate_dcf cleared (the clear() calls
\* that open the try block).
Cleared(g) ==
  [g EXCEPT !.fv_entry = Blank, !.cp_entry = Blank, !.ud_entry = Blank,
            !.info_text = Blank, !.rrev_entry = Blank, !.rfcf_entry = Blank,
            !.rwacc_entry = Blank, !.info_entries = Blank,
            !.erev_entry = Blank]

\* The arguments calculate_dcf gives dcf.
GuiDcfArgs(g, info) ==
  Args(Scalar(FromPercent(g.rev_growth_entry.number)),
       Scalar(FromPercent(g.fcf_margin_entry.number)),
       g.nyears_entry.number[1], info.starting_rev,
       FromPercent(g.wacc_entry.number), FromPercent(g.tgr_entry.number),
       info.total_shares, info.current_price, FALSE)

\* fair_value, req_rg, req_wacc, req_fcf, curr_rev_growth = results, and
\* the entry each of them is written into.
GuiUnpack(results) ==
  LET fair_value == results[1]
      req_rg == results[2]
      req_wacc == results[3]
      req_fcf == results[4]
      curr_rev_growth == results[5]
  IN  [fv_entry |-> fair_value, rrev_entry |-> req_rg,
       rfcf_entry |-> req_fcf, rwacc_entry |-> req_wacc]

\* calculate_dcf, the slot of the Calculate button.  The conversions stand
\* before the try block; whatever is raised inside it ends in the except
\* clause, which writes Error into fv_entry.  The lines after the unpacking
\* are those both files share; the ones of GUI.py that read extra_info, the
\* seventh name, write info_entries and erev_entry.  The calculation is
\* followed for the horizons of GuiHorizons, not for the default 7.
CalculateDcf ==
  /\ gui.nyears_entry.empty \/ gui.nyears_entry.number[1] \in GuiHorizons
  /\ LET lines == GuiLines[gui.program]
         first == FirstEmpty(gui)
         began == [gui EXCEPT
                     !.last = "calculate_dcf", !.exc = "none", !.line = 0,
                     !.locals = [NoLocals EXCEPT !.began_on_results =
                                    gui.fv_entry.text = "value"]]
     IN  IF first # "none"
           THEN gui' = [began EXCEPT !.exc = "ValueError",
                                     !.line = lines[first]]
         ELSE \E info \in GetInfoOutcomes :
           IF info.kind = "raised"
             THEN gui' = [Cleared(began) EXCEPT
                            !.fv_entry = ErrorText, !.exc = "Exception",
                            !.line = lines.get_info]
           ELSE IF GetInfoArity # UnpackArity(gui.program)
             THEN gui' = [Cleared(began) EXCEPT
                            !.fv_entry = ErrorText, !.exc = "ValueError",
                            !.line = lines.get_info,
                            !.locals.fetched = TRUE]
           ELSE
             LET results == Dcf(GuiDcfArgs(gui, info))
                 unpacked == [Cleared(began) EXCEPT
                                !.info_text = Shown(Unset),
                                !.locals.fetched = TRUE,
                                !.locals.current_price = info.current_price,
                                !.locals.results = results]
             IN  IF results.kind = "raised"
                   THEN gui' = [unpacked EXCEPT
                                  !.fv_entry = ErrorText,
                                  !.exc = results.exc, !.line = lines.dcf]
                 ELSE LET to == GuiUnpack(ResultTuple(results))
                      IN gui' = [unpacked EXCEPT
                        !.fv_entry = Shown(to.fv_entry),
                        !.cp_entry = Shown(info.current_price),
                        !.ud_entry =
                           Shown(CalcUpDownside(to.fv_entry,
                                                info.current_price,
                                                TRUE).value),
                        !.rrev_entry = Shown(to.rrev_entry),
                        !.rfcf_entry = Shown(to.rfcf_entry),
                        !.rwacc_entry = Shown(to.rwacc_entry),
                        !.rev_dcf_start = Shown(info.current_price),
                        !.info_entries =
                           IF gui.program = "GUI.py" THEN Shown(Unset)
                           ELSE Blank,
                        !.erev_entry =
                           IF gui.program = "GUI.py" THEN Shown(Unset)
                           ELSE Blank]
  /\ UNCHANGED <<call, stack, opt, outcome, helper, cli, par, batch>>

\* populate_info, the slot of the Populate Info button.  Nothing catches
\* what get_info or the unpacking raises.
PopulateInfo ==
  /\ LET began == [gui EXCEPT !.last = "populate_info", !.exc = "none",
                              !.line = 0, !.locals = NoLocals,
                              !.info_text = Blank]
         line == GuiLines[gui.program].populate
     IN  \E info \in GetInfoOutcomes :
           IF info.kind = "raised"
             THEN gui' = [began EXCEPT !.exc = "Exception", !.line = line]
           ELSE IF GetInfoArity # UnpackArity(gui.program)
             THEN gui' = [began EXCEPT !.exc = "ValueError", !.line = line,
                                       !.locals.fetched = TRUE]
           ELSE gui' = [began EXCEPT
                          !.info_text = Shown(Unset),
                          !.locals.fetched = TRUE,
                          !.info_entries =
                             IF gui.program = "GUI.py" THEN Shown(Unset)
                             ELSE gui.info_entries]
  /\ UNCHANGED <<call, stack, opt, outcome, helper, cli, par, batch>>

\* reset_fields putting the constructor's texts back into the three
\* entries that have them.
ResetRestoringDefaults(g) ==
  [Cleared(g) EXCEPT
     !.ticker_entry = "", !.rev_growth_entry = Empty,
     !.fcf_margin_entry = Empty,
     !.nyears_entry = DefaultYears, !.wacc_entry = DefaultWacc,
     !.tgr_entry = DefaultTgr,
     !.last = "reset_fields", !.exc = "none", !.line = 0,
     !.locals = NoLocals]

\* The window after reset_fields: its clear() calls are those of
\* calculate_dcf and three more, for ticker, growth and margin.
Reset(g) ==
  [Cleared(g) EXCEPT
     !.ticker_entry = "", !.rev_growth_entry = Empty,
     !.fcf_margin_entry = Empty,
     !.last = "reset_fields", !.exc = "none", !.line = 0,
     !.locals = NoLocals]

\* reset_fields, the slot of the Reset button.
ResetFields ==
  /\ gui' = Reset(gui)
  /\ UNCHANGED <<call, stack, opt, outcome, helper, cli, par, batch>>

NextGui ==
  \/ EditEntry
  \/ CalculateDcf
  \/ PopulateInfo
  \/ ResetFields

SpecGui == InitGui /\ [][NextGui]_vars

\* ------------------------------------------------------------------------
\* C20.  What the window shows after a calculation that failed.
\* ------------------------------------------------------------------------
\* calculate_dcf ended in its except clause.
CalculationFailed ==
  /\ gui.last = "calculate_dcf"
  /\ gui.exc # "none"
  /\ gui.fv_entry = ErrorText

\* The current price was obtained: get_info returned and its tuple was
\* unpacked.
PriceObtained == gui.locals.current_price # Unset

\* C20: when a calculation fails in the GUI, an output field whose own
\* computation succeeded still shows its result, neither Error nor blank:
\* the current price obtained before dcf raised is in cp_entry.
C20_SucceededFieldsStillShown ==
  (CalculationFailed /\ PriceObtained)
    => gui.cp_entry = Shown(gui.locals.current_price)


\* ------------------------------------------------------------------------
\* C21.  A horizon of one year.
\* ------------------------------------------------------------------------
\* (F_1/(1+r) + F_1*(1+tgr)/((r-tgr)*(1+r))) / total_shares with
\* F_1 = latest_revenue*(1+g_1)*m_1, from the caller's arguments.
OneYearValue ==
  LET r == call.wacc
      t == call.tgr
      F1 == Mul(Mul(call.latest_revenue, Add(One, GrowthOfYear(1))),
                MarginOfYear(1))
  IN  Div(Add(Div(F1, Add(One, r)),
              Div(Mul(F1, Add(One, t)), Mul(Sub(r, t), Add(One, r)))),
          call.total_shares)

\* C21: for a horizon of one year the fair value lines 119-144 compute is
\* one discounted FCF year plus one terminal value built from that same
\* year's FCF and discount factor, over the share count: it is what a
\* price-only call returns and what a full call keeps for its result.
C21_OneYearHorizon ==
  /\ (Finished /\ call.n_future_years = 1 /\ outcome.kind = "value")
        => outcome.fair_value = OneYearValue
  /\ (stack # <<>> /\ call.n_future_years = 1
        /\ stack[1].fair_value # Unset)
        => stack[1].fair_value = OneYearValue
  /\ (Finished /\ call.n_future_years = 1 /\ outcome.kind = "tuple")
        => outcome.fair_value = Round2(OneYearValue)

\* A price-only call over one year, with growth, a terminal growth rate
\* above zero and a discount rate above it, has returned a finite value
\* that is not zero.
C21_Witness ==
  /\ Finished /\ call.n_future_years = 1 /\ outcome.kind = "value"
  /\ GrowthOfYear(1) # Zero
  /\ Less(Zero, call.tgr) /\ Less(call.tgr, call.wacc)
  /\ IsFinite(outcome.fair_value) /\ outcome.fair_value # Zero


\* ------------------------------------------------------------------------
\* C22.  Broadcasting.
\* ------------------------------------------------------------------------
\* The candidate the running solve of frame c has handed its objective.
Candidate(c) == Grid(c.pc)[c.idx + 1]

\* Frame i is a call made by the objective of a solve of frame i-1.
CalledBySolve(i) == i > 1 /\ stack[i - 1].pc \in Solves

\* C22: past lines 113-117 the outermost call works with a scalar input as
\* n_future_years equal entries and with a supplied sequence as it was
\* given; and the call a growth (margin) objective makes has the candidate
\* in every year of its growth (margin) path, whatever the caller's own
\* input for that lever was, and the caller's path for the other lever.
C22_Broadcast ==
  /\ (stack # <<>> /\ stack[1].pc # "broadcast") =>
        /\ stack[1].rev_growth_array = OriginalGrowth
        /\ stack[1].fcf_margins_array = OriginalMargins
        /\ IsScalar(call.rev_growth_array) =>
              /\ Len(stack[1].rev_growth_array.a) = call.n_future_years
              /\ \A k \in 1..call.n_future_years :
                    stack[1].rev_growth_array.a[k] = call.rev_growth_array.a[1]
        /\ IsScalar(call.fcf_margins_array) =>
              /\ Len(stack[1].fcf_margins_array.a) = call.n_future_years
              /\ \A k \in 1..call.n_future_years :
                    stack[1].fcf_margins_array.a[k] = call.fcf_margins_array.a[1]
        /\ ~IsScalar(call.rev_growth_array) =>
              stack[1].rev_growth_array = call.rev_growth_array
        /\ ~IsScalar(call.fcf_margins_array) =>
              stack[1].fcf_margins_array = call.fcf_margins_array
  /\ \A i \in 1..Len(stack) : CalledBySolve(i) =>
        LET c == stack[i - 1]
            f == stack[i]
        IN  /\ c.pc = "solve_rg" =>
                 /\ f.rev_growth_array = Full(c.n_future_years, Candidate(c))
                 /\ f.fcf_margins_array = c.fcf_margins_array
            /\ c.pc = "solve_fcf" =>
                 /\ f.fcf_margins_array = Full(c.n_future_years, Candidate(c))
                 /\ f.rev_growth_array = c.rev_growth_array
            /\ c.pc = "solve_wacc" =>
                 /\ f.rev_growth_array = c.rev_growth_array
                 /\ f.fcf_margins_array = c.fcf_margins_array

\* The margin objective has called dcf for a caller whose margins differ
\* from year to year, with a candidate that is neither of them.
C22_Witness ==
  /\ Len(stack) = 2
  /\ stack[1].pc = "solve_fcf"
  /\ ~IsScalar(call.fcf_margins_array)
  /\ call.n_future_years = 2
  /\ call.fcf_margins_array.a[1] # call.fcf_margins_array.a[2]
  /\ Candidate(stack[1]) # call.fcf_margins_array.a[1]
  /\ Candidate(stack[1]) # call.fcf_margins_array.a[2]
  /\ stack[2].pc = "forward"


\* ------------------------------------------------------------------------
\* C23.  The order of the four computations of a full call.
\* ------------------------------------------------------------------------
\* The place of a position of dcf in the order the claim gives.
Rank(pc) ==
  IF pc = "broadcast" THEN 0
  ELSE IF pc = "forward" THEN 1
  ELSE IF pc = "solve_rg" THEN 2
  ELSE IF pc = "solve_wacc" THEN 3
  ELSE IF pc = "solve_fcf" THEN 4
  ELSE 5

FullCallRuns == stack # <<>> /\ ~call.reverse_dcf_mode

\* What the outermost frame holds is what the computations before its
\* position have produced, and nothing of the ones after it.
ResultsFollowPosition ==
  FullCallRuns =>
    LET f == stack[1]
    IN  /\ (f.fair_value # Unset) = (Rank(f.pc) >= 2)
        /\ (f.required_rev_growth # Unset) = (Rank(f.pc) >= 3)
        /\ (f.required_discount_rate # Unset) = (Rank(f.pc) >= 4)
        /\ (f.required_fcf_margin # Unset) = (Rank(f.pc) >= 5)
        \* a call of an objective is open only while the one solve the
        \* frame is in runs
        /\ Len(stack) > 1 => f.pc \in Solves
        /\ Len(stack) <= 2

\* A step keeps the position of the outermost frame or moves it to the next
\* one of the order; the tuple is returned from the last position only.
OneAfterAnother ==
  /\ (FullCallRuns /\ stack' # <<>>) =>
        \/ stack'[1].pc = stack[1].pc
        \/ Rank(stack'[1].pc) = Rank(stack[1].pc) + 1
  /\ (outcome'.kind = "tuple" /\ outcome.kind # "tuple") =>
        /\ FullCallRuns
        /\ stack[1].pc = "return"
        /\ Len(stack) = 1

\* C23: within one full dcf call the forward fair value is computed first,
\* then the growth solve, then the discount-rate solve, then the margin
\* solve run one after another, each begun only when the one before it has
\* produced its result, and the tuple is returned only after all three.
C23_Sequential == []ResultsFollowPosition /\ [][OneAfterAnother]_vars

\* The margin solve is running, its objective inside a dcf call, and the
\* two solves before it have left their results.
C23_Witness ==
  /\ FullCallRuns
  /\ Len(stack) = 2
  /\ stack[1].pc = "solve_fcf"
  /\ stack[1].idx = 1
  /\ stack[1].required_rev_growth # Unset
  /\ stack[1].required_discount_rate # Unset
  /\ stack[1].required_fcf_margin = Unset


\* ------------------------------------------------------------------------
\* batch_mode.py run on a CSV file (lines 91-114; the --gen_file branch of
\* lines 68-90 is another run and is not followed) and
\* write_batch_mode_csv, provider.py lines 258-270.
\* ------------------------------------------------------------------------
\* The number of names line 100 unpacks the tuple of get_info into.
BatchUnpackArity == 5

\* csv_header of write_batch_mode_csv.
CsvHeader ==
  <<"stock", "fair_value", "current_price", "upside/(downside)",
    "assumed_revenue_growth(%)", "assumed_fcf_margin (%)",
    "current_price_rev_growth (%)", "current_price_fcf_margin (%)",
    "current_price_required_return (%)">>

\* The value a row has under a heading.
Column(row, heading) ==
  row[CHOOSE k \in 1..Len(CsvHeader) : CsvHeader[k] = heading]

\* Lines 98-110: the row of ticker t, in the order of the appends.
BatchRow(t, results, current_price, fcf_margin_estimate) ==
  LET fv == results[1]
      r_rg == results[2]
      r_wacc == results[3]
      r_fcf == results[4]
      rev_growth == results[5]
  IN  <<t, Round2(fv), Round2(current_price),
        CalcUpDownside(fv, current_price, TRUE).value,
        rev_growth, Round2(fcf_margin_estimate), r_rg, r_fcf, r_wacc>>

\* The rows of the input CSV: a ticker (the index, no ticker twice) with
\* its growth and margin estimates in percent.
BatchTickers == {"AAPL", "MSFT"}
BatchInputRows ==
  [stock : BatchTickers, rev_growth_estimate : {<<100, 1>>, <<-50, 1>>},
   fcf_margin_estimate : {<<50, 1>>}]
BatchInputs ==
  {data \in UNION {[1..L -> BatchInputRows] : L \in 0..2} :
      \A i, j \in 1..Len(data) : i # j => data[i].stock # data[j].stock}

\* What is on the disk under batch_mode_files/results when nothing was
\* written.
NoFile == [written |-> 0, header |-> <<>>, rows |-> <<>>]

InitBatch ==
  /\ \E data \in BatchInputs, N \in 1..MaxYears, rrr \in {<<25, 1>>, <<100, 1>>} :
        batch = [data |-> data, N |-> N, rrr |-> rrr, tgr |-> Zero,
                 i |-> 1, csv_list |-> <<>>, file |-> NoFile,
                 pc |-> "loop", exc |-> "none", line |-> 0]
  /\ NoDcf
  /\ helper = Unset /\ cli = Unset /\ gui = Unset /\ par = Unset

\* The file after the run was ended by an exception: line 114 is not
\* reached, the rows gathered so far are dropped with the process.
FileAfterAbortPartial(b) ==
  [written |-> b.file.written + 1, header |-> CsvHeader, rows |-> b.csv_list]

FileAfterAbort(b) == b.file

\* The run ends with an exception nothing catches.
BatchAbort(exc, line) ==
  batch' = [batch EXCEPT !.pc = "raised", !.exc = exc, !.line = line,
                         !.file = FileAfterAbort(batch)]

\* One pass of the loop of lines 97-112 for the next ticker.
BatchAnalyse ==
  /\ batch.pc = "loop"
  /\ batch.i <= Len(batch.data)
  /\ LET row == batch.data[batch.i]
     IN  \E info \in GetInfoOutcomes :
           IF info.kind = "raised" THEN BatchAbort("Exception", 100)
           ELSE IF GetInfoArity # BatchUnpackArity
             THEN BatchAbort("ValueError", 100)
           ELSE LET results ==
                      Dcf(Args(Scalar(FromPercent(row.rev_growth_estimate)),
                               Scalar(FromPercent(row.fcf_margin_estimate)),
                               batch.N, info.starting_rev,
                               FromPercent(batch.rrr), FromPercent(batch.tgr),
                               info.total_shares, info.current_price, FALSE))
                IN  IF results.kind = "raised"
                      THEN BatchAbort(results.exc, 101)
                    ELSE batch' = [batch EXCEPT
                           !.i = @ + 1,
                           !.csv_list =
                              Append(@, BatchRow(row.stock,
                                                 ResultTuple(results),
                                                 info.current_price,
                                                 row.fcf_margin_estimate))]
  /\ UNCHANGED <<call, stack, opt, outcome, helper, cli, gui, par>>

\* Line 114 once the loop has ended: write_batch_mode_csv writes the header
\* and all rows into one new file.
BatchWrite ==
  /\ batch.pc = "loop"
  /\ batch.i > Len(batch.data)
  /\ batch' = [batch EXCEPT
        !.pc = "done",
        !.file = [written |-> @.written + 1, header |-> CsvHeader,
                  rows |-> batch.csv_list]]
  /\ UNCHANGED <<call, stack, opt, outcome, helper, cli, gui, par>>

NextBatch ==
  \/ BatchAnalyse
  \/ BatchWrite

SpecBatch == InitBatch /\ [][NextBatch]_vars


\* ------------------------------------------------------------------------
\* C24.  The positions of the result tuple and its callers.
\* ------------------------------------------------------------------------
\* calculate_dcf has got the five results of dcf.
GotResults ==
  /\ gui.last = "calculate_dcf"
  /\ gui.locals.results.kind = "tuple"

\* C24: what each caller of dcf shows or writes as required growth,
\* required margin, required return and assumed growth is the value dcf
\* computed for that lever: the entries of the window after a calculation,
\* and the sentences of print_calculated_info and get_calculated_info and
\* the columns of the batch row for the tuple that calculation received.
C24_PositionsAgree ==
  GotResults =>
    LET o == gui.locals.results
        results == ResultTuple(o)
        price == gui.locals.current_price
        printed == PrintCalculatedInfo(results, price, Scalar(Half), "AAPL",
                                       Zero, Quarter, 1)
        info == GetCalculatedInfo(results, price, Scalar(Half), "AAPL",
                                  Zero, Quarter, 1)
        row == BatchRow("AAPL", results, price, <<50, 1>>)
    IN  /\ gui.rrev_entry = Shown(o.required_rev_growth)
        /\ gui.rfcf_entry = Shown(o.required_fcf_margin)
        /\ gui.rwacc_entry = Shown(o.required_discount_rate)
        /\ gui.fv_entry = Shown(o.fair_value)
        /\ printed.would_have_to_grow_at = o.required_rev_growth
        /\ printed.or_have_fcf_margin_of = o.required_fcf_margin
        /\ printed.or_you_get_return = o.required_discount_rate
        /\ printed.assuming_revenue_growth = o.assumed_cagr
        /\ printed.fair_value = o.fair_value
        /\ info.would_have_to_grow_at = o.required_rev_growth
        /\ info.or_have_fcf_margin_of = o.required_fcf_margin
        /\ info.or_you_get_return = o.required_discount_rate
        /\ info.assuming_revenue_growth = o.assumed_cagr
        /\ info.fair_value = o.fair_value
        /\ Column(row, "current_price_rev_growth (%)") = o.required_rev_growth
        /\ Column(row, "current_price_fcf_margin (%)") = o.required_fcf_margin
        /\ Column(row, "current_price_required_return (%)")
              = o.required_discount_rate
        /\ Column(row, "assumed_revenue_growth(%)") = o.assumed_cagr
        /\ Column(row, "fair_value") = Round2(o.fair_value)

\* A calculation has shown its results, and the five values of the tuple
\* differ from one another, so that no two positions can be taken for each
\* other.
C24_Witness ==
  /\ GotResults
  /\ gui.rrev_entry.text = "value"
  /\ LET results == ResultTuple(gui.locals.results)
     IN  \A i, j \in 1..5 : i # j => results[i] # results[j]


\* ------------------------------------------------------------------------
\* C25.  The tuple of get_info and the names it is unpacked into.
\* ------------------------------------------------------------------------
\* C25: at every call site the tuple get_info returned is unpacked without
\* an error on its length, so that a calculation whose data fetch succeeded
\* goes on to call dcf, and populate_info whose fetch succeeded ends
\* without an exception.
C25_UnpackingMatches ==
  /\ (gui.last = "calculate_dcf" /\ gui.locals.fetched)
        => /\ gui.locals.results.kind # "none"
           /\ ~(gui.exc = "ValueError"
                  /\ gui.line = GuiLines[gui.program].get_info)
  /\ (gui.last = "populate_info" /\ gui.locals.fetched)
        => gui.exc = "none"


\* ------------------------------------------------------------------------
\* C26.  Nothing of an earlier calculation is left after a later one.
\* ------------------------------------------------------------------------
\* calculate_dcf ran last and its five conversions succeeded.
Calculated == gui.last = "calculate_dcf" /\ FirstEmpty(gui) = "none"

\* What the calculation that ran last has for each output entry: the
\* values of its own results tuple and of the price it fetched.
OwnValue(entry) ==
  LET o == gui.locals.results
      price == gui.locals.current_price
  IN  IF entry = "fv_entry" THEN o.fair_value
      ELSE IF entry = "cp_entry" THEN price
      ELSE IF entry = "ud_entry"
        THEN CalcUpDownside(o.fair_value, price, TRUE).value
      ELSE IF entry = "rrev_entry" THEN o.required_rev_growth
      ELSE IF entry = "rfcf_entry" THEN o.required_fcf_margin
      ELSE o.required_discount_rate

\* C26: after a calculate_dcf whose inputs parse, every output entry is
\* empty, shows Error (fv_entry only) or shows the value that same
\* invocation computed, whatever the window showed before; and when the
\* invocation raised inside its try block fv_entry shows Error and the
\* three reverse-DCF entries and the revenue entry are empty.
C26_NothingStale ==
  Calculated =>
    /\ \A entry \in OutputEntries :
          \/ gui[entry] = Blank
          \/ (entry = "fv_entry" /\ gui[entry] = ErrorText)
          \/ /\ gui.locals.results.kind = "tuple"
             /\ gui[entry] = Shown(OwnValue(entry))
    /\ \/ gui.erev_entry = Blank
       \/ (gui.locals.results.kind = "tuple" /\ gui.exc = "none")
    /\ gui.exc # "none" =>
          /\ gui.fv_entry = ErrorText
          /\ gui.rrev_entry = Blank
          /\ gui.rfcf_entry = Blank
          /\ gui.rwacc_entry = Blank
          /\ gui.cp_entry = Blank /\ gui.ud_entry = Blank
          /\ gui.erev_entry = Blank

\* A calculation that began with the results of an earlier one on the
\* screen has raised inside its try block.
C26_Witness ==
  /\ Calculated
  /\ gui.locals.began_on_results
  /\ gui.exc # "none"
  /\ gui.fv_entry = ErrorText


\* ------------------------------------------------------------------------
\* C27.  An input that does not parse.
\* ------------------------------------------------------------------------
SomeInputUnparsed == \E entry \in InputEntries : gui[entry].empty

\* Everything the window shows besides its input entries.
Screen(g) ==
  <<g.fv_entry, g.cp_entry, g.ud_entry, g.rrev_entry, g.rfcf_entry,
    g.rwacc_entry, g.erev_entry, g.info_entries, g.info_text,
    g.rev_dcf_start>>

\* A step of calculate_dcf taken with an input that does not parse ends
\* with the ValueError of a conversion and changes nothing on the screen.
UnparsedLeavesScreen ==
  (gui'.last = "calculate_dcf" /\ SomeInputUnparsed) =>
     /\ Screen(gui') = Screen(gui)
     /\ gui'.exc = "ValueError"
     /\ gui'.line \in {GuiLines[gui.program][c] :
                         c \in {"rev_growth", "fcf_margin", "nyears",
                                "wacc", "tgr"}}
     /\ ~gui'.locals.fetched

\* C27: when a numeric input of the GUI does not parse, calculate_dcf
\* raises before its try block and leaves every output field as it was:
\* nothing is cleared, Error is not written, the results of an earlier
\* calculation stay on screen.
C27_UnparsedInputLeavesOutputs == [][UnparsedLeavesScreen]_vars

\* calculate_dcf has just ended with the ValueError of a conversion while
\* the results of an earlier calculation are on the screen.
C27_Witness ==
  /\ gui.last = "calculate_dcf"
  /\ SomeInputUnparsed
  /\ gui.exc = "ValueError"
  /\ gui.fv_entry.text = "value"
  /\ gui.rrev_entry.text = "value"
  /\ gui.cp_entry.text = "value"


\* ------------------------------------------------------------------------
\* C28.  reset_fields.
\* ------------------------------------------------------------------------
\* A step of reset_fields empties the ticker, growth and margin entries and
\* every output and info field and keeps the texts of the other three
\* inputs; taken again at once, it changes nothing.
ResetStep ==
  gui'.last = "reset_fields" =>
     /\ gui'.ticker_entry = ""
     /\ gui'.rev_growth_entry = Empty
     /\ gui'.fcf_margin_entry = Empty
     /\ \A entry \in OutputEntries : gui'[entry] = Blank
     /\ gui'.erev_entry = Blank
     /\ gui'.info_entries = Blank
     /\ gui'.info_text = Blank
     /\ gui'.nyears_entry = gui.nyears_entry
     /\ gui'.wacc_entry = gui.wacc_entry
     /\ gui'.tgr_entry = gui.tgr_entry
     /\ gui.last = "reset_fields" => gui' = gui

\* C28: reset_fields clears the ticker, growth and margin inputs and every
\* output and info field, leaves the number-of-years, discount-rate and
\* terminal-growth inputs as they are (the defaults 7, 10 and 2.5 are not
\* put back), and applied twice gives the state it gives applied once.
C28_Reset ==
  /\ [](Reset(Reset(gui)) = Reset(gui))
  /\ [][ResetStep]_vars

\* reset_fields has run on a window whose years and discount rate were
\* typed over and on which a calculation had shown its results (the label
\* still carries the price): the typed texts are there, the defaults are
\* not.
C28_Witness ==
  /\ gui.last = "reset_fields"
  /\ gui.nyears_entry # DefaultYears
  /\ gui.wacc_entry # DefaultWacc
  /\ gui.rev_dcf_start # Blank
  /\ gui.fv_entry = Blank


\* ------------------------------------------------------------------------
\* C29.  Scaling the margins, the revenue and the share count.
\* ------------------------------------------------------------------------
\* The factors k > 0 tried.
ScaleFactors == {Half, <<2, 1>>, <<3, 1>>}

\* The margins of an argument, each multiplied by k.
ScaledMargins(m, k) ==
  IF IsScalar(m) THEN Scalar(Mul(k, m.a[1]))
  ELSE Array([i \in 1..Len(m.a) |-> Mul(k, m.a[i])])

\* The price-only call for the caller's arguments has returned a value.
PriceOnlyReturned ==
  /\ Finished
  /\ call.reverse_dcf_mode
  /\ outcome.kind = "value"

\* What dcf returns for arguments a.
ValueOf(a) == Dcf(a).fair_value

\* The margin margin * current_price / fair_value.
SolvingMargin ==
  Div(Mul(call.fcf_margins_array.a[1], call.current_price),
      outcome.fair_value)

\* The case of the reverse margin problem: one margin for all years, a
\* price, and a fair value that is a number other than zero.
MarginProblem ==
  /\ PriceOnlyReturned
  /\ IsScalar(call.fcf_margins_array)
  /\ call.current_price # None
  /\ IsFinite(outcome.fair_value)
  /\ outcome.fair_value # Zero

\* C29: the price-only fair value is k times as large with all margins
\* multiplied by k, k times as large with latest_revenue multiplied by k
\* and 1/k times as large with total_shares multiplied by k, for k > 0; and
\* for one margin and a fair value that is a number other than zero the
\* margin at which the fair value is the current price is
\* margin * current_price / fair_value and no other.
C29_Homogeneous ==
  /\ PriceOnlyReturned =>
        \A k \in ScaleFactors :
           /\ ValueOf([call EXCEPT !.fcf_margins_array = ScaledMargins(@, k)])
                 = Mul(k, outcome.fair_value)
           /\ ValueOf([call EXCEPT !.latest_revenue = Mul(k, @)])
                 = Mul(k, outcome.fair_value)
           /\ ValueOf([call EXCEPT !.total_shares = Mul(k, @)])
                 = Div(outcome.fair_value, k)
  /\ MarginProblem =>
        /\ ValueOf([call EXCEPT !.fcf_margins_array = Scalar(SolvingMargin)])
              = call.current_price
        /\ \A x \in SignedFractions :
              ValueOf([call EXCEPT !.fcf_margins_array = Scalar(x)])
                 = call.current_price
              => x = SolvingMargin

\* A price-only call with one margin has returned a fair value that is a
\* number, not zero and not the current price, so that the margin solving
\* the reverse problem is another one than the caller's; and that margin is
\* among the candidates tried for uniqueness.
C29_Witness ==
  /\ MarginProblem
  /\ call.n_future_years = 2
  /\ outcome.fair_value # call.current_price
  /\ Less(Zero, call.current_price)
  /\ SolvingMargin # call.fcf_margins_array.a[1]
  /\ SolvingMargin \in SignedFractions


\* ------------------------------------------------------------------------
\* C30.  The results file of a batch run.
\* ------------------------------------------------------------------------
\* The file is written at most once and only by a run that went through
\* every row of the input; it then has the header and one row per ticker,
\* in the order of the input.  A run ended by an exception has written
\* nothing.  While the loop runs, the rows gathered are those of the
\* tickers before the next one.
ResultsFile ==
  /\ batch.file.written <= 1
  /\ batch.file.written = 1 =>
        /\ batch.pc = "done"
        /\ batch.i = Len(batch.data) + 1
        /\ batch.file.header = CsvHeader
        /\ Len(batch.file.rows) = Len(batch.data)
        /\ \A j \in 1..Len(batch.data) :
              Column(batch.file.rows[j], "stock") = batch.data[j].stock
  /\ batch.pc = "done" => batch.file.written = 1
  /\ batch.pc = "raised" => batch.file = NoFile
  /\ batch.pc = "loop" =>
        /\ batch.file = NoFile
        /\ Len(batch.csv_list) = batch.i - 1

\* The file changes in one step only, taken when no ticker is left.
WrittenAtTheEnd ==
  batch'.file # batch.file =>
     /\ batch.pc = "loop"
     /\ batch.i > Len(batch.data)
     /\ batch'.pc = "done"

=============================================================================
